---- MODULE Spec2Model ----
(***************************************************************************)
(* A model of the knowledge graph (context_management/code_context_graph)  *)
(* and of the entity extractors and repository analyzer                    *)
(* (source_processing/enhanced_code_analyzer) of Coding-Assistant.         *)
(*                                                                         *)
(* Conventions.                                                            *)
(*  - A filesystem path is the sequence of its components, relative to the *)
(*    working directory of the process; Path('.') is the empty sequence.   *)
(*  - A node id is a Python string.  A string is represented by the        *)
(*    sequence of its '/'-separated pieces, so str(Path('lib/w.js')) is    *)
(*    <<"lib", "w.js">>, 'ExampleClass' is <<"ExampleClass">> and          *)
(*    str(Path('.')) is <<".">>.                                           *)
(*  - A dict is a record (a function on strings); a missing key is a       *)
(*    string outside its DOMAIN.                                           *)
(***************************************************************************)
EXTENDS Integers, Sequences, FiniteSets, TLC

VARIABLES
    fs,                \* the filesystem: path -> [size, content] of every regular file
    graph,             \* CodeContextGraph.graph, a networkx DiGraph
    last,              \* the last call made on the CodeContextGraph and what it returned
    pre,               \* the graph held before that call, and the call made before it
    calls,             \* the number of calls made so far
    source_data,       \* the scanned source handed to EnhancedCodeAnalyzer
    analysis_results,  \* what analyze_code_source returned for source_data
    file_analysis      \* what the last analyze_file / parse_and_analyze call returned

vars == <<fs, graph, last, pre, calls, source_data, analysis_results, file_analysis>>

None == "None"

(***************************************************************************)
(* Generic helpers.                                                        *)
(***************************************************************************)
RECURSIVE SetToSeq(_)
SetToSeq(S) ==
    IF S = {} THEN <<>>
    ELSE LET x == CHOOSE y \in S : TRUE IN <<x>> \o SetToSeq(S \ {x})

Range(s) == {s[i] : i \in DOMAIN s}

IsPrefix(p, q) == Len(p) <= Len(q) /\ SubSeq(q, 1, Len(p)) = p

(***************************************************************************)
(* pathlib.                                                                *)
(***************************************************************************)
\* str(path): the empty path prints as '.'
Str(p) == IF p = <<>> THEN <<".">> ELSE p

\* path.parent
Parent(p) == IF p = <<>> THEN <<>> ELSE SubSeq(p, 1, Len(p) - 1)

\* path.name: '' for Path('.')
Name(p) == IF p = <<>> THEN "" ELSE p[Len(p)]

\* path.relative_to(repo_path), for a path below repo_path
RelativeTo(p, root) == SubSeq(p, Len(root) + 1, Len(p))

\* path.suffix of the file names that occur in the model
Suffix(p) ==
    CASE Name(p) \in {"a.js", "b.js", "w.js", "v.js", "big.js", "l.js", "n.js"} -> ".js"
      [] Name(p) \in {"w.py", "f.py", "s.py", "p.py", "c.py"} -> ".py"
      [] Name(p) = "W.java" -> ".java"
      [] Name(p) = "a.c" -> ".c"
      [] Name(p) = "m.h" -> ".h"
      [] Name(p) = "w.cpp" -> ".cpp"
      [] Name(p) = "w.rb" -> ".rb"
      [] Name(p) = "n.txt" -> ".txt"
      [] Name(p) \in {"_graph.json", "r_graph.json"} -> ".json"
      [] OTHER -> ""

\* the path components that contain the substring '.git'
DotGitNames == {".git", ".gitignore", ".github"}

\* '.git' in str(path)
HasDotGit(p) == \E i \in DOMAIN p : p[i] \in DotGitNames

(***************************************************************************)
(* networkx.DiGraph: a dict of nodes, each with an attribute dict, and a   *)
(* dict of edges keyed by the ordered pair (u, v), each with an attribute  *)
(* dict.  At most one edge exists per ordered pair.                        *)
(***************************************************************************)
NoAttrs == <<>>

\* nx.DiGraph()
DiGraph == [nodes |-> <<>>, edges |-> <<>>]

\* G.add_node(n, **attrs): a new node, or an update of the attributes of n
add_node(G, n, attrs) ==
    [G EXCEPT !.nodes =
        [m \in DOMAIN G.nodes \cup {n} |->
            IF m = n
            THEN (IF n \in DOMAIN G.nodes THEN attrs @@ G.nodes[n] ELSE attrs)
            ELSE G.nodes[m]]]

\* G.add_edge(u, v, **attrs): adds u and v when absent; an existing edge
\* (u, v) keeps its identity and has its attributes updated
add_edge(G, u, v, attrs) ==
    LET withU == IF u \in DOMAIN G.nodes THEN G ELSE add_node(G, u, NoAttrs)
        withV == IF v \in DOMAIN withU.nodes THEN withU ELSE add_node(withU, v, NoAttrs)
    IN  [withV EXCEPT !.edges =
            [e \in DOMAIN withV.edges \cup {<<u, v>>} |->
                IF e = <<u, v>>
                THEN (IF e \in DOMAIN withV.edges THEN attrs @@ withV.edges[e] ELSE attrs)
                ELSE withV.edges[e]]]

\* n in G
HasNode(G, n) == n \in DOMAIN G.nodes

NodeIds(G) == DOMAIN G.nodes

\* the (source, target, relationship) triples of G
EdgeTriples(G) == {<<e[1], e[2], G.edges[e].relationship>> : e \in DOMAIN G.edges}

(***************************************************************************)
(* File contents.  A text is the sequence of its tokens; the file holds    *)
(* the tokens joined by single spaces, the token "\n" being a line break.  *)
(* `ast` is what ast.parse makes of the text: a Module tree, or            *)
(* SyntaxError.  A tree node is [kind, name, bases, body].                 *)
(***************************************************************************)
NL == "\n"
Node(kind, name, bases, body) == [kind |-> kind, name |-> name, bases |-> bases, body |-> body]
Call(name) == Node("Call", name, <<>>, <<>>)
Module(body) == Node("Module", "", <<>>, body)
SyntaxError == Node("SyntaxError", "", <<>>, <<>>)

Text(tokens) == [text |-> tokens, ast |-> SyntaxError]
Python(tokens, tree) == [text |-> tokens, ast |-> tree]

\* function foo ( ) { bar ( ) ; }
JsFooCallsBar == Text(<<"function", "foo", "(", ")", "{", "bar", "(", ")", ";", "}">>)
\* function bar ( ) { }
JsBar == Text(<<"function", "bar", "(", ")", "{", "}">>)
\* class Widget { draw ( ) { } resize ( ) { } }
JsWidget == Text(<<"class", "Widget", "{", "draw", "(", ")", "{", "}",
                   "resize", "(", ")", "{", "}", "}">>)

\* var x = 1 ;
JsNoEntities == Text(<<"var", "x", "=", "1", ";">>)
\* function foo ( ) { if ( x ) { } bar ( ) ; }
JsNested == Text(<<"function", "foo", "(", ")", "{", "if", "(", "x", ")", "{", "}",
                   "bar", "(", ")", ";", "}">>)
\* a text larger than the analyzer's size limit
JsBig == Text(JsFooCallsBar.text \o JsNested.text)
\* function foo ( ) { for ( x ) while ( x ) ; }
JsLoops == Text(<<"function", "foo", "(", ")", "{", "for", "(", "x", ")",
                  "while", "(", "x", ")", ";", "}">>)
\* the same function with an if block added in front of its loops:
\* function foo ( ) { if ( x ) { } for ( x ) while ( x ) ; }
JsNestedLoops == Text(<<"function", "foo", "(", ")", "{", "if", "(", "x", ")", "{", "}",
                        "for", "(", "x", ")", "while", "(", "x", ")", ";", "}">>)

\* def foo ( ): / bar ( )
PyFoo == Python(<<"def", "foo", "(", ")", ":", NL, "bar", "(", ")">>,
                Module(<<Node("FunctionDef", "foo", <<>>, <<Call("bar")>>)>>))
\* class Widget: / def draw ( self ): / pass / def resize ( self ): / pass
PyWidget ==
    Python(<<"class", "Widget", ":", NL, "def", "draw", "(", "self", ")", ":", NL, "pass", NL,
             "def", "resize", "(", "self", ")", ":", NL, "pass">>,
           Module(<<Node("ClassDef", "Widget", <<>>,
                         <<Node("FunctionDef", "draw", <<>>, <<>>),
                           Node("FunctionDef", "resize", <<>>, <<>>)>>)>>))
\* def foo (          -- no Python
PyBroken == Python(<<"def", "foo", "(">>, SyntaxError)
\* x = 1
PyPlain == Python(<<"x", "=", "1">>, Module(<<Node("Assign", "x", <<>>, <<>>)>>))
\* class Widget ( Base ): / x = 1
PyClassOnly ==
    Python(<<"class", "Widget", "(", "Base", ")", ":", NL, "x", "=", "1">>,
           Module(<<Node("ClassDef", "Widget", <<"Base">>, <<Node("Assign", "x", <<>>, <<>>)>>)>>))

\* public class Widget { void draw ( ) { } void resize ( ) { } }
JavaWidget == Text(<<"public", "class", "Widget", "{", "void", "draw", "(", ")", "{", "}",
                     "void", "resize", "(", ")", "{", "}", "}">>)
\* void foo ( ) { bar ( ) ; }
CFoo == Text(<<"void", "foo", "(", ")", "{", "bar", "(", ")", ";", "}">>)
\* int main ( ) { }
CMain == Text(<<"int", "main", "(", ")", "{", "}">>)
\* class Widget { void draw ( ) ; void resize ( ) ; } ;
CppWidget == Text(<<"class", "Widget", "{", "void", "draw", "(", ")", ";",
                    "void", "resize", "(", ")", ";", "}", ";">>)
\* class Widget / def draw ( ) / end / def resize ( ) / end / end
RubyWidget == Text(<<"class", "Widget", NL, "def", "draw", "(", ")", NL, "end", NL,
                     "def", "resize", "(", ")", NL, "end", NL, "end">>)
\* hello          -- a Python expression as well
Prose == Python(<<"hello">>, Module(<<Node("Expr", "", <<>>, <<>>)>>))

\* content None, which analyze_file and the parsers can be handed
NoContent == [none |-> TRUE]
IsNone(content) == "none" \in DOMAIN content

\* An exception on its way up, as the value of the expression that raised
\* it, and the two forms of try/except the analyzer uses.
Raise(exc) == [raised |-> exc]
Raised(v) == "raised" \in DOMAIN v
\* try: v / except Exception: handler
Try(v, handler) == IF Raised(v) THEN handler ELSE v
\* the dict a parser returns from its except branch
ErrorResult(message) == [functions |-> <<>>, classes |-> <<>>, error |-> message]

\* the size in bytes of a text, counted in tokens
SizeOf(content) == Len(content.text)

(***************************************************************************)
(* Regular expressions over tokens.  Every token is followed by a space,   *)
(* so \s+ and \s* between two atoms of a pattern are satisfied between     *)
(* two tokens and skip line breaks; \w+ matches one word token (a keyword  *)
(* is a word); no word of the model's texts ends in a keyword of a         *)
(* pattern.  The texts hold no generics (<...>), no throws clause, no      *)
(* pointer star and no comment.                                            *)
(***************************************************************************)
Punct == {"(", ")", "{", "}", ";", ",", ":", "=", "=>", NL}

At(c, i) == IF i \in 1..Len(c) THEN c[i] ELSE ""

IsWord(t) == t # "" /\ t \notin Punct

\* the index of the next token after i that is no line break
RECURSIVE Nx(_, _)
Nx(c, i) ==
    IF i + 1 > Len(c) THEN Len(c) + 1
    ELSE IF c[i + 1] = NL THEN Nx(c, i + 1) ELSE i + 1

\* the first index >= i that holds token t, 0 when there is none
RECURSIVE FirstAt(_, _, _)
FirstAt(c, i, t) ==
    IF i > Len(c) THEN 0
    ELSE IF c[i] = t THEN i ELSE FirstAt(c, i + 1, t)

\* str.count(word + ' ')
RECURSIVE Count(_, _)
Count(c, t) ==
    IF c = <<>> THEN 0
    ELSE (IF Head(c) = t THEN 1 ELSE 0) + Count(Tail(c), t)

\* the text of the tokens c: one space between two tokens, none before ':'
RECURSIVE Join(_)
Join(c) ==
    IF c = <<>> THEN ""
    ELSE IF Len(c) = 1 THEN c[1]
    ELSE c[1] \o (IF c[2] = ":" THEN "" ELSE " ") \o Join(Tail(c))

\* str.strip() on tokens: the line breaks at both ends go
RECURSIVE Strip(_)
Strip(c) ==
    IF c = <<>> THEN c
    ELSE IF Head(c) = NL THEN Strip(Tail(c))
    ELSE IF c[Len(c)] = NL THEN Strip(SubSeq(c, 1, Len(c) - 1))
    ELSE c

\* [piece.strip() for piece in text.split(',')]
RECURSIVE SplitComma(_, _)
SplitComma(c, piece) ==
    IF c = <<>> THEN <<Join(Strip(piece))>>
    ELSE IF Head(c) = "," THEN <<Join(Strip(piece))>> \o SplitComma(Tail(c), <<>>)
    ELSE SplitComma(Tail(c), Append(piece, Head(c)))

\* re.findall(r'\b(\w+)\s*\(', body): the words followed by a parenthesis
RECURSIVE CallSites(_, _)
CallSites(body, i) ==
    IF i > Len(body) THEN <<>>
    ELSE IF IsWord(body[i]) /\ At(body, Nx(body, i)) = "("
         THEN <<body[i]>> \o CallSites(body, i + 1)
         ELSE CallSites(body, i + 1)

\* match[0][:-1] for a match that re.findall returns as the string of
\* group 1: its first character with the last character of that cut off,
\* the empty string
CalledName(match) == ""

\* [match[0][:-1] for match in re.findall(call_pattern, body)]
Calls(body) == LET sites == CallSites(body, 1) IN [i \in DOMAIN sites |-> CalledName(sites[i])]

\* list(set(calls))
Dedup(names) == SetToSeq(Range(names))

(***************************************************************************)
(* Patterns.  A pattern is the sequence of the atoms of its regular        *)
(* expression and the record of its groups before the match fills them.    *)
(* A pattern that opens with optional modifiers before a type word or a    *)
(* keyword is located by that word: the modifiers change where the match   *)
(* starts, not what it captures nor where it ends.                         *)
(***************************************************************************)
\* one of the given tokens, a keyword or a punctuation mark
Tok(words) == [kind |-> "tok", of |-> words]
\* \w+, captured as the group key unless key is ""
Word(key) == [kind |-> "word", key |-> key]
\* \s+ at the head of a pattern: the match does not start the text
Space == [kind |-> "space"]
\* (?:a|b): the options in the order they are tried
Alt(options) == [kind |-> "alt", options |-> options]
\* (?:a)?
Opt(atoms) == Alt(<<atoms, <<>>>>)
\* [^t]* (min 0) and \s+[^t]+ (min 1), greedy: the tokens up to the first t
\* or the end of the text, a line break being one; \s+ finds no white space
\* before a ':'
Not(tok, key, min) == [kind |-> "not", tok |-> tok, key |-> key, min |-> min]
\* (.*?)(?<=t), lazy: up to and with a token t, the nearest first; '.'
\* crosses a line break only under re.DOTALL
Lazy(tok, key, dotall) == [kind |-> "lazy", tok |-> tok, key |-> key, dotall |-> dotall]

NoMatch == [end |-> 0]

\* the groups m with the group key set
Capture(m, key, v) == IF key = "" THEN m ELSE [m EXCEPT ![key] = v]

\* backtracking: the second way is tried when the first one fails
OrElse(first, second) == IF first.end # 0 THEN first ELSE second

RECURSIVE Match(_, _, _, _)
RECURSIVE MatchAlt(_, _, _, _, _)
RECURSIVE MatchLazy(_, _, _, _, _, _)

\* the atom a followed by the atoms rest, after the token at p; q is the
\* index of the next token, o of the first a.tok after p
MatchAtom(a, rest, c, p, q, m) ==
    CASE a.kind = "tok" -> IF At(c, q) \in a.of THEN Match(rest, c, q, m) ELSE NoMatch
      [] a.kind = "word" ->
            IF IsWord(At(c, q)) THEN Match(rest, c, q, Capture(m, a.key, At(c, q))) ELSE NoMatch
      [] a.kind = "space" -> IF p >= 1 THEN Match(rest, c, p, m) ELSE NoMatch
      [] a.kind = "alt" -> MatchAlt(a.options, rest, c, p, m)
      [] a.kind = "lazy" -> MatchLazy(a, rest, c, p, FirstAt(c, p + 1, a.tok), m)

\* a [^t] run followed by the atoms rest, after the token at p; stop is the
\* index of the last token of the run
MatchNot(a, rest, c, p, stop, m) ==
    IF stop - p < a.min \/ (a.min > 0 /\ At(c, p + 1) = ":") THEN NoMatch
    ELSE Match(rest, c, stop, Capture(m, a.key, SubSeq(c, p + 1, stop)))

\* the index of the last token before the first t after p
RunEnd(c, p, t) == IF FirstAt(c, p + 1, t) = 0 THEN Len(c) ELSE FirstAt(c, p + 1, t) - 1

\* the atoms matched from the token after p on, the groups so far m: the
\* groups with end the index of the last token matched, NoMatch when the
\* atoms do not match
Match(atoms, c, p, m) ==
    IF atoms = <<>> THEN [m EXCEPT !.end = p]
    ELSE IF Head(atoms).kind = "not"
    THEN MatchNot(Head(atoms), Tail(atoms), c, p, RunEnd(c, p, Head(atoms).tok), m)
    ELSE MatchAtom(Head(atoms), Tail(atoms), c, p, Nx(c, p), m)

MatchAlt(options, rest, c, p, m) ==
    IF options = <<>> THEN NoMatch
    ELSE OrElse(Match(Head(options) \o rest, c, p, m), MatchAlt(Tail(options), rest, c, p, m))

\* e is the index of a token a.tok after p, 0 when there is no further one
MatchLazy(a, rest, c, p, e, m) ==
    IF e = 0 \/ (~a.dotall /\ \E l \in (p + 1)..e : c[l] = NL) THEN NoMatch
    ELSE OrElse(Match(rest, c, e, Capture(m, a.key, SubSeq(c, p + 1, e))),
                MatchLazy(a, rest, c, p, FirstAt(c, e + 1, a.tok), m))

\* the parameter list \(([^)]*)\)
Params == <<Tok({"("}), Not(")", "", 0), Tok({")"})>>

\* JavaScriptCodeParser function_pattern
JsFunctionPattern ==
    [atoms |-> <<Tok({"function"}), Word("name")>> \o Params
               \o <<Tok({"{"}), Lazy("}", "body", TRUE)>>,
     groups |-> [end |-> 0, name |-> "", body |-> <<>>]]

\* JavaScriptCodeParser arrow_pattern
JsArrowPattern ==
    [atoms |-> <<Tok({"const", "let", "var"}), Word("name"), Tok({"="}),
                 Alt(<<Params, <<Word("")>>>>), Tok({"=>"}), Tok({"{"}),
                 Lazy("}", "body", TRUE)>>,
     groups |-> [end |-> 0, name |-> "", body |-> <<>>]]

\* JavaScriptCodeParser class_pattern
JsClassPattern ==
    [atoms |-> <<Tok({"class"}), Word("name"),
                 Opt(<<Tok({"extends"}), Word("superclass")>>),
                 Tok({"{"}), Lazy("}", "body", TRUE)>>,
     groups |-> [end |-> 0, name |-> "", superclass |-> None, body |-> <<>>]]

\* JavaScriptCodeParser method_pattern, used without re.DOTALL
JsMethodPattern ==
    [atoms |-> <<Opt(<<Tok({"async"})>>), Word("name")>> \o Params
               \o <<Tok({"{"}), Lazy("}", "", FALSE)>>,
     groups |-> [end |-> 0, name |-> ""]]

\* JavaCodeParser class_pattern, from the \s+ before the keyword class
JavaClassPattern ==
    [atoms |-> <<Space, Tok({"class"}), Word("name"),
                 Opt(<<Tok({"extends"}), Word("superclass")>>),
                 Opt(<<Tok({"implements"}), Not("{", "interfaces", 1)>>),
                 Tok({"{"}), Lazy("}", "body", TRUE)>>,
     groups |-> [end |-> 0, name |-> "", superclass |-> None, interfaces |-> <<>>,
                 body |-> <<>>]]

\* JavaCodeParser method_pattern, from the return type
JavaMethodPattern ==
    [atoms |-> <<Word(""), Word("name")>> \o Params \o <<Tok({"{"}), Lazy("}", "", TRUE)>>,
     groups |-> [end |-> 0, name |-> ""]]

\* CCodeParser func_pattern, from the return type
CFunctionPattern ==
    [atoms |-> <<Word(""), Word("name")>> \o Params
               \o <<Opt(<<Tok({"const"})>>), Tok({"{"}), Lazy("}", "body", TRUE)>>,
     groups |-> [end |-> 0, name |-> "", body |-> <<>>]]

\* CCodeParser class_pattern: the body ends at a closing brace that a
\* semicolon follows
CppClassPattern ==
    [atoms |-> <<Tok({"class", "struct"}), Word("name"),
                 Opt(<<Tok({":"}), Tok({"public", "protected", "private"}),
                       Word("superclass")>>),
                 Tok({"{"}), Lazy("}", "body", TRUE), Tok({";"})>>,
     groups |-> [end |-> 0, name |-> "", superclass |-> None, body |-> <<>>]]

\* CCodeParser method_pattern, from the return type: a declaration ended by
\* ';' or a definition up to its opening brace
CppMethodPattern ==
    [atoms |-> <<Word(""), Word("name")>> \o Params
               \o <<Opt(<<Tok({"const"})>>), Opt(<<Tok({"="}), Tok({"0"})>>),
                    Opt(<<Tok({"override"})>>),
                    Alt(<< <<Tok({";"})>>,
                           <<Opt(<<Tok({":"}), Not("{", "", 0)>>), Tok({"{"})>> >>)>>,
     groups |-> [end |-> 0, name |-> ""]]

\* GenericCodeParser func_pattern1
GenericFunction1Pattern ==
    [atoms |-> <<Tok({"function", "def", "sub", "proc", "fn"}), Word("name")>> \o Params,
     groups |-> [end |-> 0, name |-> ""]]

\* GenericCodeParser func_pattern2, from the \s+ before the type word
GenericFunction2Pattern ==
    [atoms |-> <<Space, Word(""), Word("name")>> \o Params,
     groups |-> [end |-> 0, name |-> ""]]

\* GenericCodeParser class_pattern
GenericClassPattern ==
    [atoms |-> <<Tok({"class", "struct", "interface"}), Word("name"),
                 Opt(<<Tok({"extends", "implements", "inherits"}),
                       Not("{", "inheritance", 1)>>)>>,
     groups |-> [end |-> 0, name |-> "", inheritance |-> <<>>]]

\* the match of the pattern that starts at token i
MatchAt(pattern, c, i) ==
    IF At(c, i) = NL THEN NoMatch ELSE Match(pattern.atoms, c, i - 1, pattern.groups)

RECURSIVE FindIter(_, _, _)
\* the matches from token i on, m being the match at token i
FindNext(pattern, c, i, m) ==
    IF m.end = 0 THEN FindIter(pattern, c, i + 1)
    ELSE <<m>> \o FindIter(pattern, c, m.end + 1)

\* re.finditer(pattern, c): the matches from left to right, none overlapping
FindIter(pattern, c, i) ==
    IF i > Len(c) THEN <<>> ELSE FindNext(pattern, c, i, MatchAt(pattern, c, i))

\* [Op(x) for x in s]
Map(Op(_), s) == [i \in DOMAIN s |-> Op(s[i])]

Names(matches) == [i \in DOMAIN matches |-> matches[i].name]

(***************************************************************************)
(* JavaScriptCodeParser.  An entity keeps the fields the analyzer and the  *)
(* claims read: name, calls, complexity, class for a function; name,       *)
(* superclasses, methods for a class.                                      *)
(***************************************************************************)
JsComplexity(body) ==
    1 + Count(body, "if") + Count(body, "for") + Count(body, "while")
      + Count(body, "try") + Count(body, "catch")

JsFunctionInfo(m) ==
    [name |-> m.name, calls |-> Dedup(Calls(m.body)), complexity |-> JsComplexity(m.body)]

JsArrowInfo(m) == [name |-> m.name, calls |-> <<>>, complexity |-> 1]

JsClassInfo(m) ==
    [name |-> m.name,
     superclasses |-> IF m.superclass # None THEN <<m.superclass>> ELSE <<>>,
     methods |-> Names(FindIter(JsMethodPattern, m.body, 1))]

\* the try block of JavaScriptCodeParser.parse_and_analyze; re.finditer
\* raises TypeError on content None
JavaScriptExtract(content, file_path) ==
    IF IsNone(content) THEN Raise("TypeError")
    ELSE [functions |-> Map(JsFunctionInfo, FindIter(JsFunctionPattern, content.text, 1))
                        \o Map(JsArrowInfo, FindIter(JsArrowPattern, content.text, 1)),
          classes |-> Map(JsClassInfo, FindIter(JsClassPattern, content.text, 1))]

\* JavaScriptCodeParser.parse_and_analyze
JavaScriptParse(content, file_path) ==
    Try(JavaScriptExtract(content, file_path), ErrorResult("Error parsing JavaScript code"))

(***************************************************************************)
(* JavaCodeParser, CCodeParser, GenericCodeParser.                         *)
(***************************************************************************)
RECURSIVE Flatten(_)
Flatten(seqs) == IF seqs = <<>> THEN <<>> ELSE Head(seqs) \o Flatten(Tail(seqs))

\* the function_info a Java method is also recorded as
JavaMethodInfo(m, class) == [name |-> m.name, calls |-> <<>>, complexity |-> 1, class |-> class]

\* the function_infos of the methods of the class matched as m
JavaClassFunctions(m) ==
    LET Info(method) == JavaMethodInfo(method, m.name)
    IN  Map(Info, FindIter(JavaMethodPattern, m.body, 1))

JavaClassInfo(m) ==
    [name |-> m.name,
     superclasses |-> (IF m.superclass # None THEN <<m.superclass>> ELSE <<>>)
                      \o (IF m.interfaces # <<>> THEN SplitComma(m.interfaces, <<>>) ELSE <<>>),
     methods |-> Names(FindIter(JavaMethodPattern, m.body, 1))]

\* the try block of JavaCodeParser.parse_and_analyze
JavaExtract(content, file_path) ==
    IF IsNone(content) THEN Raise("TypeError")
    ELSE [functions |-> Flatten(Map(JavaClassFunctions,
                                    FindIter(JavaClassPattern, content.text, 1))),
          classes |-> Map(JavaClassInfo, FindIter(JavaClassPattern, content.text, 1))]

\* JavaCodeParser.parse_and_analyze
JavaParse(content, file_path) ==
    Try(JavaExtract(content, file_path), ErrorResult("Error parsing Java code"))

\* 'sub' in file_path, for the file names and the markers the parsers test
Substrings == {<<"w.cpp", ".cpp">>, <<"m.h", ".h">>}
InPath(sub, file_path) == \E i \in DOMAIN file_path : <<file_path[i], sub>> \in Substrings

CComplexity(body) ==
    1 + Count(body, "if") + Count(body, "else") + Count(body, "for")
      + Count(body, "while") + Count(body, "switch") + Count(body, "case")

CFunctionInfo(m) ==
    LET Other(call) == call # m.name
    IN  [name |-> m.name, calls |-> Dedup(SelectSeq(Calls(m.body), Other)),
         complexity |-> CComplexity(m.body)]

CppClassInfo(m) ==
    [name |-> m.name,
     superclasses |-> IF m.superclass # None THEN <<m.superclass>> ELSE <<>>,
     methods |-> Names(FindIter(CppMethodPattern, m.body, 1))]

\* the try block of CCodeParser.parse_and_analyze
CExtract(content, file_path) ==
    LET Kept(m) == ~(m.name = "main" /\ InPath(".h", file_path))
    IN  IF IsNone(content) THEN Raise("TypeError")
        ELSE [functions |-> Map(CFunctionInfo,
                                SelectSeq(FindIter(CFunctionPattern, content.text, 1), Kept)),
              classes |-> IF InPath(".cpp", file_path) \/ InPath(".hpp", file_path)
                             \/ InPath(".cc", file_path)
                          THEN Map(CppClassInfo, FindIter(CppClassPattern, content.text, 1))
                          ELSE <<>>]

\* CCodeParser.parse_and_analyze
CParse(content, file_path) ==
    Try(CExtract(content, file_path), ErrorResult("Error parsing C/C++ code"))

GenericFunctionInfo(m) == [name |-> m.name, calls |-> <<>>, complexity |-> 1]

GenericClassInfo(m) ==
    [name |-> m.name,
     superclasses |-> IF m.inheritance # <<>> THEN SplitComma(m.inheritance, <<>>) ELSE <<>>,
     methods |-> <<>>]

\* the try block of GenericCodeParser.parse_and_analyze
GenericExtract(content, file_path) ==
    IF IsNone(content) THEN Raise("TypeError")
    ELSE [functions |-> Map(GenericFunctionInfo,
                            FindIter(GenericFunction1Pattern, content.text, 1)
                            \o FindIter(GenericFunction2Pattern, content.text, 1)),
          classes |-> Map(GenericClassInfo, FindIter(GenericClassPattern, content.text, 1))]

\* GenericCodeParser.parse_and_analyze
GenericParse(content, file_path) ==
    Try(GenericExtract(content, file_path), ErrorResult("Error parsing code"))

(***************************************************************************)
(* PythonCodeParser.                                                       *)
(***************************************************************************)
\* ast.walk: the nodes of the tree, breadth first
RECURSIVE PyWalk(_)
PyWalk(todo) ==
    IF todo = <<>> THEN <<>>
    ELSE <<Head(todo)>> \o PyWalk(Tail(todo) \o Head(todo).body)

\* hasattr(node, attr); ast.parse gives no node a parent attribute
HasAttr(node, attr) == attr \in DOMAIN node

PyCalls(node) ==
    LET IsCall(n) == n.kind = "Call"
    IN  Names(SelectSeq(PyWalk(<<node>>), IsCall))

PyComplexity(node) ==
    LET Branches(n) == n.kind \in {"If", "For", "While", "Try"}
    IN  1 + Len(SelectSeq(PyWalk(<<node>>), Branches))

PyFunctionInfo(node) ==
    [name |-> node.name, calls |-> PyCalls(node), complexity |-> PyComplexity(node)]

PyClassInfo(node) ==
    LET IsFunctionDef(n) == n.kind = "FunctionDef"
    IN  [name |-> node.name, superclasses |-> node.bases,
         methods |-> Names(SelectSeq(node.body, IsFunctionDef))]

\* the try block of PythonCodeParser.parse_and_analyze: ast.parse raises
\* TypeError on None and SyntaxError on a text that is no Python; the first
\* FunctionDef the walk meets reads node.parent, an AttributeError on a node
\* without that attribute
PythonExtract(content, file_path) ==
    LET nodes == PyWalk(<<content.ast>>)
        IsFunctionDef(n) == n.kind = "FunctionDef"
        IsFunction(n) == IsFunctionDef(n) /\ n.parent.kind # "ClassDef"
        IsClassDef(n) == n.kind = "ClassDef"
        funcs == SelectSeq(nodes, IsFunction)
        classes == SelectSeq(nodes, IsClassDef)
    IN  IF IsNone(content) THEN Raise("TypeError")
        ELSE IF content.ast.kind = "SyntaxError" THEN Raise("SyntaxError")
        ELSE IF \E i \in DOMAIN nodes : IsFunctionDef(nodes[i]) /\ ~HasAttr(nodes[i], "parent")
        THEN Raise("AttributeError")
        ELSE [functions |-> [i \in DOMAIN funcs |-> PyFunctionInfo(funcs[i])],
              classes |-> [i \in DOMAIN classes |-> PyClassInfo(classes[i])]]

\* the handlers of PythonCodeParser as they would be without the generic
\* except clause: only SyntaxError is caught
TryPythonSyntaxOnly(v) ==
    IF Raised(v) /\ v.raised = "SyntaxError" THEN ErrorResult("Syntax error") ELSE v

\* except SyntaxError: ... / except Exception: ...
TryPython(v) ==
    IF ~Raised(v) THEN v
    ELSE IF v.raised = "SyntaxError" THEN ErrorResult("Syntax error")
    ELSE ErrorResult("Error parsing Python code")

\* PythonCodeParser.parse_and_analyze
PythonParse(content, file_path) == TryPython(PythonExtract(content, file_path))

(***************************************************************************)
(* EnhancedCodeAnalyzer.                                                   *)
(***************************************************************************)
\* self.config of the analyzer: the size limit, counted in tokens
config == [max_analysis_size |-> 20]

\* self.language_parsers.get(language), GenericCodeParser() when it is None
parse_and_analyze(language, content, file_path) ==
    CASE language = "python" -> PythonParse(content, file_path)
      [] language \in {"javascript", "typescript"} -> JavaScriptParse(content, file_path)
      [] language = "java" -> JavaParse(content, file_path)
      [] language \in {"c", "cpp"} -> CParse(content, file_path)
      [] OTHER -> GenericParse(content, file_path)

\* language_map of _detect_language
language_map ==
    (".py" :> "python") @@ (".js" :> "javascript") @@ (".java" :> "java") @@
    (".c" :> "c") @@ (".h" :> "c") @@ (".cpp" :> "cpp") @@ (".rb" :> "ruby")

\* re.search(r'def\s+\w+\s*\(.*\):', content); ':' is written directly
\* after the token before it, and '.' does not cross a line break
SearchDef(c) ==
    \E i \in DOMAIN c :
        /\ c[i] = "def" /\ IsWord(At(c, Nx(c, i))) /\ At(c, Nx(c, Nx(c, i))) = "("
        /\ \E m \in DOMAIN c :
              /\ m > Nx(c, Nx(c, i)) /\ c[m] = ")" /\ At(c, m + 1) = ":"
              /\ \A l \in Nx(c, Nx(c, i))..m : c[l] # NL

\* re.search(r'function\s+\w+\s*\(.*\)\s*{', content)
SearchFunction(c) ==
    \E i \in DOMAIN c :
        /\ c[i] = "function" /\ IsWord(At(c, Nx(c, i))) /\ At(c, Nx(c, Nx(c, i))) = "("
        /\ \E m \in DOMAIN c :
              /\ m > Nx(c, Nx(c, i)) /\ c[m] = ")" /\ At(c, Nx(c, m)) = "{"
              /\ \A l \in Nx(c, Nx(c, i))..m : c[l] # NL

\* re.search of a pattern that is one of the given words; no other word
\* of the model's texts contains one of them
SearchWord(c, words) == \E i \in DOMAIN c : c[i] \in words

\* re.search(r'import\s+\w+', content)
SearchImport(c) == \E i \in DOMAIN c : c[i] = "import" /\ IsWord(At(c, Nx(c, i)))

\* EnhancedCodeAnalyzer._detect_language
detect_language(file_path, content) ==
    LET ext == Suffix(file_path)
    IN  IF ext \in DOMAIN language_map THEN language_map[ext]
        ELSE IF IsNone(content) \/ content.text = <<>> THEN "unknown"
        ELSE IF SearchDef(content.text) \/ SearchImport(content.text) THEN "python"
        ELSE IF SearchFunction(content.text) \/ SearchWord(content.text, {"const", "let", "var"})
        THEN "javascript"
        ELSE "unknown"

(***************************************************************************)
(* CodeSourceScanner: the classification that gives the files of           *)
(* source_data their language.                                             *)
(***************************************************************************)
\* self.language_extensions, by extension, for the extensions of the
\* model's paths
language_extensions ==
    (".py" :> "python") @@ (".js" :> "javascript") @@ (".java" :> "java") @@
    (".c" :> "c") @@ (".h" :> "c") @@ (".cpp" :> "cpp") @@ (".rb" :> "ruby") @@
    (".json" :> "json")

\* re.search of a pattern that is a sequence of tokens and words
Search(atoms, c) == FindIter([atoms |-> atoms, groups |-> [end |-> 0]], c, 1) # <<>>

\* re.search(r'\{[^}]*word:', content)
SearchProperty(c, word) ==
    \E i \in DOMAIN c : \E j \in DOMAIN c :
        /\ c[i] = "{" /\ j > i /\ c[j] = word /\ At(c, j + 1) = ":"
        /\ \A l \in i + 1..j : c[l] # "}"

\* re.search(r'^\s*\w+:\s*\w+', content, re.MULTILINE)
SearchKey(c) ==
    \E i \in DOMAIN c :
        /\ i = 1 \/ c[i - 1] = NL
        /\ IsWord(At(c, Nx(c, i - 1)))
        /\ At(c, Nx(c, i - 1) + 1) = ":"
        /\ IsWord(At(c, Nx(c, Nx(c, i - 1) + 1)))

\* the text between braces that json.loads accepts: of the model's texts,
\* the empty object alone
JsonObject(c) ==
    /\ Strip(c) # <<>> /\ Head(Strip(c)) = "{" /\ Strip(c)[Len(Strip(c))] = "}"
    /\ Strip(c) = <<"{", "}">>

\* CodeSourceScanner._detect_language_from_content.  r'import\s+java\.' is
\* left out: r'import\s+\w+' of the first test matches wherever it does;
\* so is r'using\s+System;', the model's texts having a space before ';'
detect_language_from_content(c) ==
    IF SearchDef(c) \/ SearchImport(c) THEN "python"
    ELSE IF SearchFunction(c) \/ SearchWord(c, {"const", "let", "var"}) THEN "javascript"
    ELSE IF \/ Search(<<Tok({"interface"}), Word(""), Tok({"{"})>>, c)
            \/ Search(<<Tok({":"}), Word(""), Tok({",", ")"})>>, c)
    THEN "typescript"
    ELSE IF Search(<<Tok({"public", "private"}), Tok({"class"})>>, c) THEN "java"
    ELSE IF \/ Search(<<Tok({"#include"}), Tok({"<"})>>, c)
            \/ Search(<<Tok({"int"}), Tok({"main"}), Tok({"("})>>, c)
    THEN (IF SearchWord(c, {"std::cout"}) \/ Search(<<Tok({"template"}), Tok({"<"})>>, c)
          THEN "cpp" ELSE "c")
    ELSE IF Search(<<Tok({"namespace"}), Word("")>>, c) THEN "csharp"
    ELSE IF SearchWord(c, {"<html>"}) \/ Search(<<Tok({"<!DOCTYPE"}), Tok({"html>"})>>, c)
    THEN "html"
    ELSE IF SearchProperty(c, "color") \/ SearchProperty(c, "margin") THEN "css"
    ELSE IF JsonObject(c) THEN "json"
    ELSE IF SearchKey(c) THEN "yaml"
    ELSE "unknown"

\* the scanner's detection with the content before the extension
scanner_content_first(file_path, content) ==
    IF ~IsNone(content) /\ content.text # <<>>
       /\ detect_language_from_content(content.text) # "unknown"
    THEN detect_language_from_content(content.text)
    ELSE IF Suffix(file_path) \in DOMAIN language_extensions
    THEN language_extensions[Suffix(file_path)]
    ELSE "unknown"

\* CodeSourceScanner._detect_language
scanner_detect_language(file_path, content) ==
    IF Suffix(file_path) \in DOMAIN language_extensions
    THEN language_extensions[Suffix(file_path)]
    ELSE IF IsNone(content) \/ content.text = <<>> THEN "unknown"
    ELSE detect_language_from_content(content.text)

\* the lines of content.split('\n') that hold a token
RECURSIVE CodeLines(_, _)
CodeLines(c, open) ==
    IF c = <<>> THEN 0
    ELSE IF Head(c) = NL THEN CodeLines(Tail(c), FALSE)
    ELSE (IF open THEN 0 ELSE 1) + CodeLines(Tail(c), TRUE)

\* EnhancedCodeAnalyzer._calculate_metrics; content.split raises
\* AttributeError on None; the texts hold no comment
calculate_metrics(content, language) ==
    IF IsNone(content) THEN Raise("AttributeError")
    ELSE [total_lines |-> 1 + Count(content.text, NL),
          code_lines |-> CodeLines(content.text, FALSE),
          comment_lines |-> 0, comment_ratio |-> 0]

\* Python's None as a returned value, and the truth value of a returned dict
PyNone == <<>>
Truthy(v) == v # <<>>

\* analysis['metrics'] = metrics, an exception of either passing through
add_metrics(analysis, metrics) ==
    IF Raised(analysis) THEN analysis
    ELSE IF Raised(metrics) THEN metrics
    ELSE [metrics |-> metrics] @@ analysis

\* EnhancedCodeAnalyzer.analyze_file; language None asks for detection
analyze_file(file_path, content, language) ==
    LET detected == IF language = None THEN detect_language(file_path, content) ELSE language
    IN  Try(add_metrics(parse_and_analyze(detected, content, file_path),
                        calculate_metrics(content, detected)), PyNone)

\* counts[key] = counts.get(key, 0) + 1 on a dict kept as the sequence of
\* its <<key, count>> items in insertion order
Bump(counts, key) ==
    IF \E i \in DOMAIN counts : counts[i][1] = key
    THEN [i \in DOMAIN counts |->
             IF counts[i][1] = key THEN <<key, counts[i][2] + 1>> ELSE counts[i]]
    ELSE Append(counts, <<key, 1>>)

\* max(counts.items(), key=lambda x: x[1]): the first item with the largest count
MaxItem(counts) ==
    counts[CHOOSE i \in DOMAIN counts :
              /\ \A k \in DOMAIN counts : counts[k][2] <= counts[i][2]
              /\ \A k \in 1..(i - 1) : counts[k][2] < counts[i][2]]

\* the branch 'if file_analysis:' of the loop of analyze_code_source
add_file_analysis(results, file_data, file_analysis_) ==
    LET Tagged(e) == e @@ [file |-> file_data.path, language |-> file_data.language]
    IN  IF ~Truthy(file_analysis_) THEN results
        ELSE [results EXCEPT !.functions = @ \o Map(Tagged, file_analysis_.functions),
                             !.classes = @ \o Map(Tagged, file_analysis_.classes),
                             !.files_analyzed = @ + 1]

\* one turn of the loop of analyze_code_source
analyze_file_data(results, file_data) ==
    IF \/ file_data.language = "unknown"
       \/ SizeOf(file_data.content) > config.max_analysis_size
    THEN results
    ELSE add_file_analysis(results, file_data,
             analyze_file(file_data.path, file_data.content, file_data.language))

\* the loop of analyze_code_source over source_data['files']
RECURSIVE AnalyzeFiles(_, _)
AnalyzeFiles(files, results) ==
    IF files = <<>> THEN results
    ELSE AnalyzeFiles(Tail(files),
             analyze_file_data([results EXCEPT !.language_breakdown =
                                    Bump(@, Head(files).language)], Head(files)))

\* the last element of entities with the given name
LastNamed(entities, name) ==
    entities[CHOOSE i \in DOMAIN entities :
                /\ entities[i].name = name
                /\ \A k \in (i + 1)..Len(entities) : entities[k].name # name]

\* a symbol table written classes first, functions after them
symbol_map_classes_first(results) ==
    [name \in Range(Names(results.functions)) \cup Range(Names(results.classes)) |->
        IF name \in Range(Names(results.functions))
        THEN [type |-> "function", data |-> LastNamed(results.functions, name)]
        ELSE [type |-> "class", data |-> LastNamed(results.classes, name)]]

\* symbol_map of _build_cross_file_relationships: functions first, classes
\* after them, a later entry of the same name replacing the earlier one
symbol_map(results) ==
    [name \in Range(Names(results.functions)) \cup Range(Names(results.classes)) |->
        IF name \in Range(Names(results.classes))
        THEN [type |-> "class", data |-> LastNamed(results.classes, name)]
        ELSE [type |-> "function", data |-> LastNamed(results.functions, name)]]

\* the linking step with a symbol table of the functions only
link_functions_only(results) ==
    LET symbols == symbol_map([results EXCEPT !.classes = <<>>])
        Known(called) == called \in DOMAIN symbols
        Dependencies(func) ==
            LET found == SelectSeq(func.calls, Known)
            IN  [i \in DOMAIN found |->
                    [source |-> func.name, target |-> found[i],
                     source_file |-> func.file,
                     target_file |-> symbols[found[i]].data.file, type |-> "call"]]
    IN  [results EXCEPT
           !.dependencies = @ \o Flatten([i \in DOMAIN results.functions |->
                                             Dependencies(results.functions[i])]),
           !.symbols = symbol_map(results)]

\* EnhancedCodeAnalyzer._build_cross_file_relationships
build_cross_file_relationships(results) ==
    LET symbols == symbol_map(results)
        Known(called) == called \in DOMAIN symbols
        Dependencies(func) ==
            LET found == SelectSeq(func.calls, Known)
            IN  [i \in DOMAIN found |->
                    [source |-> func.name, target |-> found[i],
                     source_file |-> func.file,
                     target_file |-> symbols[found[i]].data.file, type |-> "call"]]
    IN  [results EXCEPT
           !.dependencies = @ \o Flatten([i \in DOMAIN results.functions |->
                                             Dependencies(results.functions[i])]),
           !.symbols = symbols]

\* the <<source_file, target_file>> counts of _generate_insights
RECURSIVE Couplings(_, _)
Couplings(dependencies, counts) ==
    IF dependencies = <<>> THEN counts
    ELSE LET dep == Head(dependencies)
         IN  Couplings(Tail(dependencies),
                 IF dep.source_file # dep.target_file
                 THEN Bump(counts, <<dep.source_file, dep.target_file>>) ELSE counts)

\* EnhancedCodeAnalyzer._generate_insights; an insight is kept as the
\* values its sentence is formatted from
generate_insights(results) ==
    LET languages == results.language_breakdown
        primary == MaxItem(languages)
        IsComplex(func) == func.complexity > 10
        complex_functions == Names(SelectSeq(results.functions, IsComplex))
        dependencies == Couplings(results.dependencies, <<>>)
        most_coupled == MaxItem(dependencies)
    IN  [results EXCEPT !.insights =
           (IF languages # <<>> /\ primary[1] # "unknown"
            THEN <<[insight |-> "primary_language", language |-> primary[1],
                    files |-> primary[2]]>> ELSE <<>>)
           \o (IF complex_functions = <<>> THEN <<>>
               ELSE IF Len(complex_functions) > 3
               THEN <<[insight |-> "complex_count", count |-> Len(complex_functions)]>>
               ELSE <<[insight |-> "complex_functions", names |-> complex_functions]>>)
           \o (IF dependencies # <<>>
               THEN <<[insight |-> "strongest_coupling", files |-> most_coupled[1],
                       connections |-> most_coupled[2]]>> ELSE <<>>)]

\* analysis_results as analyze_code_source sets it up
EmptyResults ==
    [files_analyzed |-> 0, functions |-> <<>>, classes |-> <<>>, dependencies |-> <<>>,
     language_breakdown |-> <<>>, symbols |-> <<>>, insights |-> <<>>]

\* EnhancedCodeAnalyzer.analyze_code_source
analyze_code_source(files) ==
    generate_insights(build_cross_file_relationships(AnalyzeFiles(files, EmptyResults)))

(***************************************************************************)
(* The filesystem.  fs maps the path of every regular file to              *)
(* [kind, size, content]: kind "source" for a source file, "json" for a    *)
(* persisted graph, "truncated" for a graph file whose write was cut.      *)
(***************************************************************************)
SourceFile(content) == [kind |-> "source", size |-> SizeOf(content), content |-> content]

\* The source tree the model draws its repositories from: directory r with
\* a.js, whose function foo calls bar, lib/b.js, which defines bar, r/v.js
\* in a sub-directory named as the repository, and the file .git/config of
\* its git directory.
SourceTree ==
    (<<"r", "a.js">> :> SourceFile(JsFooCallsBar)) @@
    (<<"r", "lib", "b.js">> :> SourceFile(JsBar)) @@
    (<<"r", "r", "v.js">> :> SourceFile(JsBar)) @@
    (<<"r", ".git", "config">> :> SourceFile(Prose))

\* The repository paths build_graph is called with: the working directory
\* itself, its sub-directory r, and r/r, whose name is that of r.
RepoPaths == {<<>>, <<"r">>, <<"r", "r">>}

\* config.get('storage_dir', 'graphs'), relative to the working directory
storage_dir == <<"graphs">>

\* self.storage_dir / f"{repo_name}_graph.json"
graph_path(repo_name) == Append(storage_dir, repo_name \o "_graph.json")

RepoNames == {Name(p) : p \in RepoPaths}

\* repo_path.rglob('*') filtered by is_file(): every regular file below root
RGlobFiles(F, root) == {p \in DOMAIN F : IsPrefix(root, p) /\ p # root}

(***************************************************************************)
(* CodeContextGraph.build_graph and its steps.                             *)
(***************************************************************************)
contains == [relationship |-> "contains"]
defines == [relationship |-> "defines"]

\* the while loop of _add_file_nodes over the ancestors of relative_path
RECURSIVE AddDirectoryHierarchy(_, _, _, _)
AddDirectoryHierarchy(G, repo_path, relative_path, parent_dir) ==
    IF parent_dir = <<>> THEN G
    ELSE LET G1 == IF ~HasNode(G, Str(parent_dir))
                   THEN add_edge(
                            add_node(G, Str(parent_dir),
                                     [type |-> "directory", path |-> Str(parent_dir)]),
                            Str(repo_path), Str(parent_dir), contains)
                   ELSE G
             G2 == add_edge(G1, Str(parent_dir), Str(relative_path), contains)
         IN  AddDirectoryHierarchy(G2, repo_path, relative_path, Parent(parent_dir))

\* the iteration without the edge from the repository to the file
AddFileNodeUnlinked(G, F, repo_path, path) ==
    IF HasDotGit(path) THEN G
    ELSE AddDirectoryHierarchy(
             add_node(G, Str(RelativeTo(path, repo_path)),
                      [type |-> "file", path |-> Str(RelativeTo(path, repo_path)),
                       extension |-> Suffix(path), size |-> F[path].size]),
             repo_path, RelativeTo(path, repo_path), Parent(RelativeTo(path, repo_path)))

\* one iteration of the for loop of _add_file_nodes
AddFileNode(G, F, repo_path, path) ==
    IF HasDotGit(path) THEN G
    ELSE LET relative_path == RelativeTo(path, repo_path)
             G1 == add_node(G, Str(relative_path),
                            [type |-> "file", path |-> Str(relative_path),
                             extension |-> Suffix(path), size |-> F[path].size])
             G2 == add_edge(G1, Str(repo_path), Str(relative_path), contains)
         IN  AddDirectoryHierarchy(G2, repo_path, relative_path, Parent(relative_path))

\* _add_file_nodes over the files `todo`, in the order rglob yields them
RECURSIVE add_file_nodes(_, _, _, _)
add_file_nodes(G, F, repo_path, todo) ==
    IF todo = {} THEN G
    ELSE LET path == CHOOSE p \in todo : TRUE
         IN  add_file_nodes(AddFileNode(G, F, repo_path, path), F, repo_path, todo \ {path})

\* _add_code_entities: the placeholder class node and its file edge
add_code_entities(G, repo_path) ==
    add_edge(
        add_node(G, <<"ExampleClass">>,
                 [type |-> "class", path |-> <<"example", "file.py">>,
                  methods |-> <<"method1", "method2">>]),
        <<"example", "file.py">>, <<"ExampleClass">>, contains)

\* _add_code_relationships: the placeholder edge
add_code_relationships(G, repo_path) ==
    add_edge(G, <<"ExampleClass">>, <<"method1">>, defines)

\* the graph build_graph holds once the repository node is added and the
\* files `processed` have been handled by _add_file_nodes
FileNodesGraph(F, repo_path, processed) ==
    add_file_nodes(
        add_node(DiGraph, Str(repo_path),
                 [type |-> "repository", path |-> Str(repo_path)]),
        F, repo_path, processed)

\* the graph of a build_graph that runs to its save step
BuiltGraph(F, repo_path) ==
    add_code_relationships(
        add_code_entities(FileNodesGraph(F, repo_path, RGlobFiles(F, repo_path)), repo_path),
        repo_path)

(***************************************************************************)
(* Persistence: nx.node_link_data, json.dump, json.load, nx.node_link_graph*)
(***************************************************************************)
\* nx.node_link_data(G): the node list and the link list
node_link_data(G) ==
    [directed |-> TRUE, multigraph |-> FALSE,
     nodes |-> SetToSeq({[id |-> n] @@ G.nodes[n] : n \in DOMAIN G.nodes}),
     links |-> SetToSeq({[source |-> e[1], target |-> e[2]] @@ G.edges[e] :
                            e \in DOMAIN G.edges})]

Without(d, keys) == [k \in DOMAIN d \ keys |-> d[k]]

RECURSIVE AddNodesFrom(_, _)
AddNodesFrom(G, ds) ==
    IF ds = <<>> THEN G
    ELSE AddNodesFrom(add_node(G, Head(ds).id, Without(Head(ds), {"id"})), Tail(ds))

RECURSIVE AddEdgesFrom(_, _)
AddEdgesFrom(G, ds) ==
    IF ds = <<>> THEN G
    ELSE AddEdgesFrom(
            add_edge(G, Head(ds).source, Head(ds).target,
                     Without(Head(ds), {"source", "target"})),
            Tail(ds))

\* node_link_graph as it would be if it rebuilt the graph from the links
\* alone: a node keeps no attribute, and a node without an edge is lost
node_link_graph_from_links(data) == AddEdgesFrom(DiGraph, data.links)

\* nx.node_link_graph(data)
node_link_graph(data) == AddEdgesFrom(AddNodesFrom(DiGraph, data.nodes), data.links)

\* json.dump(data, f, indent=2) into a file, and json.load of such a file.
\* Every node id and attribute value of the graph is a str, an int or a list
\* of str, which JSON text denotes exactly; the file is modelled by the
\* document it holds, its size by the number of its node and link objects.
JsonFile(data) ==
    [kind |-> "json", size |-> Len(data.nodes) + Len(data.links), content |-> data]

TruncatedFile == [kind |-> "truncated", size |-> 0, content |-> <<>>]

JsonLoad(file) == file.content

WriteFile(F, path, file) == [p \in DOMAIN F \cup {path} |-> IF p = path THEN file ELSE F[p]]

RemoveFile(F, path) == [p \in DOMAIN F \ {path} |-> F[p]]

(***************************************************************************)
(* Queries.                                                                *)
(***************************************************************************)
\* the successors as they would be if the search ran on the undirected
\* graph: an edge is followed in both directions
Neighbors(G) ==
    [u \in DOMAIN G.nodes |->
        {e[2] : e \in {d \in DOMAIN G.edges : d[1] = u}}
        \cup {e[1] : e \in {d \in DOMAIN G.edges : d[2] = u}}]

\* G.successors(u) for every node u
Successors(G) == [u \in DOMAIN G.nodes |-> {e[2] : e \in {d \in DOMAIN G.edges : d[1] = u}}]

\* the breadth-first frontiers from a source: levels[k + 1] holds the nodes
\* at distance k
RECURSIVE BfsLevels(_, _, _, _)
BfsLevels(succ, frontier, seen, levels) ==
    IF frontier = {} THEN levels
    ELSE LET next == UNION {succ[u] : u \in frontier} \ seen
         IN  BfsLevels(succ, next, seen \cup next, Append(levels, frontier))

\* the shortest paths that end at v, a node of levels[k]
RECURSIVE PathsTo(_, _, _, _)
PathsTo(succ, levels, v, k) ==
    IF k = 1 THEN {<<v>>}
    ELSE UNION {{Append(q, v) : q \in PathsTo(succ, levels, u, k - 1)} :
                   u \in {w \in levels[k - 1] : v \in succ[w]}}

\* shortest_path as it would be if a path had to take at least one edge:
\* the search starts from the successors of the source
shortest_path_by_edge(G, source, target) ==
    LET succ == Successors(G)
        levels == BfsLevels(succ, succ[source], succ[source], <<{source}>>)
        at == {k \in DOMAIN levels \ {1} : target \in levels[k]}
    IN  IF at = {} THEN {}
        ELSE PathsTo(succ, levels, target, CHOOSE k \in at : TRUE)

\* nx.shortest_path(G, source, target) for nodes of G: the paths it may
\* return, one of the shortest; the empty set stands for NetworkXNoPath
shortest_path(G, source, target) ==
    LET succ == Successors(G)
        levels == BfsLevels(succ, {source}, {source}, <<>>)
        at == {k \in DOMAIN levels : target \in levels[k]}
    IN  IF at = {} THEN {}
        ELSE PathsTo(succ, levels, target, CHOOSE k \in at : TRUE)

\* [{'node': node, 'data': self.graph.nodes[node]} for node in path]
PathEntries(G, path) == [i \in DOMAIN path |-> [node |-> path[i], data |-> G.nodes[path[i]]]]

\* CodeContextGraph.find_path: the lists it may return.  Every exception is
\* caught and turned into the empty list.
find_path(G, source, target) ==
    IF HasNode(G, source) /\ HasNode(G, target)
    THEN LET paths == shortest_path(G, source, target)
         IN  IF paths = {} THEN {<<>>} ELSE {PathEntries(G, path) : path \in paths}
    ELSE {<<>>}

\* d.get(key): None when the key is missing
Get(d, key) == IF key \in DOMAIN d THEN d[key] ELSE None

\* find_dependencies with every edge at the entity listed as outgoing
find_dependencies_undirected(G, entity) ==
    IF ~HasNode(G, entity) THEN <<>>
    ELSE [incoming |-> <<>>,
          outgoing |->
            SetToSeq({[entity |-> IF e[1] = entity THEN e[2] ELSE e[1],
                       type |-> Get(G.nodes[IF e[1] = entity THEN e[2] ELSE e[1]], "type"),
                       relationship |-> Get(G.edges[e], "relationship")] :
                      e \in {d \in DOMAIN G.edges : d[1] = entity \/ d[2] = entity}})]

\* CodeContextGraph.find_dependencies: {} for an entity that is no node,
\* else one entry per incoming and per outgoing edge
find_dependencies(G, entity) ==
    IF ~HasNode(G, entity) THEN <<>>
    ELSE [incoming |->
            SetToSeq({[entity |-> e[1],
                       type |-> Get(G.nodes[e[1]], "type"),
                       relationship |-> Get(G.edges[e], "relationship")] :
                      e \in {d \in DOMAIN G.edges : d[2] = entity}}),
          outgoing |->
            SetToSeq({[entity |-> e[2],
                       type |-> Get(G.nodes[e[2]], "type"),
                       relationship |-> Get(G.edges[e], "relationship")] :
                      e \in {d \in DOMAIN G.edges : d[1] = entity}})]

(***************************************************************************)
(* The graph machine: the calls on one CodeContextGraph, and the writes    *)
(* other processes make to the source tree.                                *)
(***************************************************************************)
\* what _save_graph's open/json.dump may do: write the whole document, fail
\* to open the file, or fail after the file was opened for writing
SaveOutcomes == {"written", "open_failed", "truncated"}

\* _save_graph(repo_name): the filesystem afterwards
save_graph(F, G, repo_name, outcome) ==
    CASE outcome = "written" -> WriteFile(F, graph_path(repo_name), JsonFile(node_link_data(G)))
      [] outcome = "truncated" -> WriteFile(F, graph_path(repo_name), TruncatedFile)
      [] OTHER -> F

\* the ids the model queries that need not be nodes
AbsentIds == {<<"bar">>}

QueryIds == NodeIds(graph) \cup AbsentIds

\* the calls a run of the model makes
MaxCalls == 3

\* the files a failing build_graph handles before its walk raises
MaxProcessed == 1

IsQuery(call) == call.op \in {"find_path", "find_dependencies"}

\* what `pre` keeps of a call: its name, argument and success
Summary(call) ==
    IF IsQuery(call) THEN [op |-> "query", arg |-> <<>>, ok |-> TRUE]
    ELSE [op |-> call.op, arg |-> call.arg, ok |-> call.ok]

\* A call is recorded in `last`, and the graph it found in `pre`.  The
\* queries change neither the graph nor the filesystem: a run is followed
\* up to its first query.
Record(call) ==
    /\ calls < MaxCalls
    /\ ~IsQuery(last)
    /\ calls' = calls + 1
    /\ last' = call
    /\ pre' = [graph |-> graph, call |-> Summary(last)]

AnalyzerIdle == UNCHANGED <<source_data, analysis_results, file_analysis>>

\* a build that adds to the graph it finds
BuildGraphOntoOld(repo_path, outcome) ==
    /\ graph' = add_code_relationships(
                     add_code_entities(
                         add_file_nodes(
                             add_node(graph, Str(repo_path),
                                      [type |-> "repository", path |-> Str(repo_path)]),
                             fs, repo_path, RGlobFiles(fs, repo_path)),
                         repo_path),
                     repo_path)
    /\ fs' = save_graph(fs, graph', Name(repo_path), outcome)
    /\ Record([op |-> "build_graph", arg |-> repo_path, ok |-> TRUE,
               ret |-> TRUE, saved |-> outcome = "written"])
    /\ AnalyzerIdle

\* build_graph(repo_path) that reaches its end: the graph is rebuilt and
\* saved; the result of the save is not looked at
BuildGraph(repo_path, outcome) ==
    /\ graph' = BuiltGraph(fs, repo_path)
    /\ fs' = save_graph(fs, graph', Name(repo_path), outcome)
    /\ Record([op |-> "build_graph", arg |-> repo_path, ok |-> TRUE,
               ret |-> TRUE, saved |-> outcome = "written"])
    /\ AnalyzerIdle

\* build_graph(repo_path) in which walking the tree raises (rglob or stat
\* fails) once the files `processed` are handled: the except branch
BuildGraphFails(repo_path, processed) ==
    /\ processed \subseteq RGlobFiles(fs, repo_path)
    /\ Cardinality(processed) <= MaxProcessed
    /\ graph' = FileNodesGraph(fs, repo_path, processed)
    /\ Record([op |-> "build_graph", arg |-> repo_path, ok |-> FALSE,
               ret |-> FALSE, saved |-> FALSE])
    /\ UNCHANGED fs
    /\ AnalyzerIdle

\* _save_graph(repo_name)
SaveGraph(repo_name, outcome) ==
    /\ fs' = save_graph(fs, graph, repo_name, outcome)
    /\ Record([op |-> "_save_graph", arg |-> repo_name, ok |-> outcome = "written",
               ret |-> outcome = "written"])
    /\ UNCHANGED graph
    /\ AnalyzerIdle

\* a load that leaves an empty graph when it fails
LoadGraphClearing(repo_name, readable) ==
    LET path == graph_path(repo_name)
        loaded == path \in DOMAIN fs /\ readable /\ fs[path].kind = "json"
    IN  /\ graph' = IF loaded THEN node_link_graph(JsonLoad(fs[path])) ELSE DiGraph
        /\ Record([op |-> "load_graph", arg |-> repo_name, ok |-> loaded, ret |-> loaded])
        /\ UNCHANGED fs
        /\ AnalyzerIdle

\* load_graph(repo_name); `readable` is whether open and read succeed
LoadGraph(repo_name, readable) ==
    LET path == graph_path(repo_name)
        loaded == path \in DOMAIN fs /\ readable /\ fs[path].kind = "json"
    IN  /\ graph' = IF loaded THEN node_link_graph(JsonLoad(fs[path])) ELSE graph
        /\ Record([op |-> "load_graph", arg |-> repo_name, ok |-> loaded, ret |-> loaded])
        /\ UNCHANGED fs
        /\ AnalyzerIdle

\* find_path(source, target)
FindPath(source, target) ==
    /\ \E ret \in find_path(graph, source, target) :
          Record([op |-> "find_path", arg |-> <<source, target>>, ok |-> TRUE, ret |-> ret])
    /\ UNCHANGED <<fs, graph>>
    /\ AnalyzerIdle

\* find_dependencies(entity)
FindDependencies(entity) ==
    /\ Record([op |-> "find_dependencies", arg |-> entity, ok |-> TRUE,
               ret |-> find_dependencies(graph, entity)])
    /\ UNCHANGED <<fs, graph>>
    /\ AnalyzerIdle

\* another process creates or rewrites a file of the source tree
ExternalWrite(path) ==
    /\ path \notin DOMAIN fs
    /\ fs' = WriteFile(fs, path, SourceTree[path])
    /\ Record([op |-> "external", arg |-> path, ok |-> TRUE, ret |-> TRUE])
    /\ UNCHANGED graph
    /\ AnalyzerIdle

\* another process removes a file of the source tree
ExternalRemove(path) ==
    /\ path \in DOMAIN fs
    /\ fs' = RemoveFile(fs, path)
    /\ Record([op |-> "external", arg |-> path, ok |-> TRUE, ret |-> TRUE])
    /\ UNCHANGED graph
    /\ AnalyzerIdle

\* the value of a result variable before the call that sets it
NotCalled == [op |-> "none"]

NoCall == [op |-> "__init__", arg |-> <<>>, ok |-> TRUE, ret |-> TRUE]

Init ==
    /\ fs = SourceTree
    /\ graph = DiGraph
    /\ last = NoCall
    /\ calls = 0
    /\ pre = [graph |-> DiGraph, call |-> Summary(NoCall)]
    /\ source_data = <<>>
    /\ analysis_results = NotCalled
    /\ file_analysis = NotCalled

Next ==
    \/ \E repo_path \in RepoPaths, outcome \in SaveOutcomes : BuildGraph(repo_path, outcome)
    \/ \E repo_path \in RepoPaths, processed \in SUBSET DOMAIN fs :
          BuildGraphFails(repo_path, processed)
    \/ \E repo_name \in RepoNames, outcome \in SaveOutcomes : SaveGraph(repo_name, outcome)
    \/ \E repo_name \in RepoNames, readable \in BOOLEAN : LoadGraph(repo_name, readable)
    \/ \E source \in QueryIds, target \in QueryIds : FindPath(source, target)
    \/ \E entity \in QueryIds : FindDependencies(entity)
    \/ \E path \in DOMAIN SourceTree : ExternalWrite(path)
    \/ \E path \in DOMAIN SourceTree : ExternalRemove(path)

Spec == Init /\ [][Next]_vars

(***************************************************************************)
(* The analyzer machine: the calls on one EnhancedCodeAnalyzer.            *)
(* source_data is the scanner's file list the caller holds; it is chosen   *)
(* at the start among the lists of at most MaxFiles files of the Corpus.   *)
(***************************************************************************)
File(path, content, language) == [path |-> path, content |-> content, language |-> language]

Corpus ==
    {File(<<"a.js">>, JsFooCallsBar, "javascript"), File(<<"b.js">>, JsBar, "javascript"),
     File(<<"w.js">>, JsWidget, "javascript"), File(<<"v.js">>, JsNoEntities, "javascript"),
     File(<<"big.js">>, JsBig, "javascript"),
     File(<<"l.js">>, JsLoops, "javascript"), File(<<"n.js">>, JsNestedLoops, "javascript"),
     File(<<"f.py">>, PyFoo, "python"), File(<<"w.py">>, PyWidget, "python"),
     File(<<"s.py">>, PyBroken, "python"), File(<<"p.py">>, PyPlain, "python"),
     File(<<"c.py">>, PyClassOnly, "python"),
     File(<<"W.java">>, JavaWidget, "java"),
     File(<<"a.c">>, CFoo, "c"), File(<<"m.h">>, CMain, "c"),
     File(<<"w.cpp">>, CppWidget, "cpp"),
     File(<<"w.rb">>, RubyWidget, "ruby"),
     File(<<"n.txt">>, Prose, "unknown")}

MaxFiles == 2

\* the lists of at most n files
RECURSIVE FileLists(_)
FileLists(n) ==
    IF n = 0 THEN {<<>>}
    ELSE FileLists(n - 1) \cup
         {Append(files, f) : files \in {l \in FileLists(n - 1) : Len(l) = n - 1}, f \in Corpus}

\* one language for each parser object of language_parsers, and one that
\* has none
ParserLanguages == {"python", "javascript", "java", "cpp", "ruby"}

\* the files the single-file calls are made on: those of source_data, and
\* a path whose content could not be had
CallFiles == Range(source_data) \cup {File(<<"script">>, NoContent, None)}

GraphIdle == UNCHANGED <<fs, graph, last, pre, calls>>

\* analyzer.analyze_code_source(source_data)
AnalyzeCodeSource ==
    /\ analysis_results' = [op |-> "analyze_code_source", ret |-> analyze_code_source(source_data)]
    /\ UNCHANGED <<source_data, file_analysis>>
    /\ GraphIdle

\* analyzer.analyze_file(path, content, language), language None or given
AnalyzeFile(file, language) ==
    /\ file_analysis' = [op |-> "analyze_file", file |-> file.path, language |-> language,
                         content |-> file.content,
                         ret |-> analyze_file(file.path, file.content, language)]
    /\ UNCHANGED <<source_data, analysis_results>>
    /\ GraphIdle

\* language_parsers[language].parse_and_analyze(content, path)
ParseAndAnalyze(file, language) ==
    /\ file_analysis' = [op |-> "parse_and_analyze", file |-> file.path, language |-> language,
                         content |-> file.content,
                         ret |-> parse_and_analyze(language, file.content, file.path)]
    /\ UNCHANGED <<source_data, analysis_results>>
    /\ GraphIdle

InitAnalyze ==
    /\ fs = SourceTree
    /\ graph = DiGraph
    /\ last = NoCall
    /\ calls = 0
    /\ pre = [graph |-> DiGraph, call |-> Summary(NoCall)]
    /\ source_data \in FileLists(MaxFiles)
    /\ analysis_results = NotCalled
    /\ file_analysis = NotCalled

NextAnalyze ==
    \/ AnalyzeCodeSource
    \/ \E file \in CallFiles : \E language \in {file.language, None} : AnalyzeFile(file, language)
    \/ \E file \in CallFiles, language \in ParserLanguages : ParseAndAnalyze(file, language)

SpecAnalyze == InitAnalyze /\ [][NextAnalyze]_vars

(***************************************************************************)
(* The claims on persistence and rebuild.                                  *)
(***************************************************************************)
\* last is load_graph(name) and the call before it a _save_graph(name)
\* that wrote its file
LoadAfterSave ==
    /\ last.op = "load_graph"
    /\ pre.call.op = "_save_graph" /\ pre.call.ok /\ pre.call.arg = last.arg

\* C1: when load_graph(name) directly follows a _save_graph(name) that wrote
\* its file, the graph in memory has the node ids, the attributes on every
\* node and the (source, target, relationship) edges it had before the save.
C1_SaveLoadRoundTrip ==
    LoadAfterSave =>
        /\ NodeIds(graph) = NodeIds(pre.graph)
        /\ \A n \in NodeIds(graph) : graph.nodes[n] = pre.graph.nodes[n]
        /\ EdgeTriples(graph) = EdgeTriples(pre.graph)

\* a graph of several nodes and edges was saved and read back
C1_Witness ==
    /\ LoadAfterSave /\ last.ok
    /\ Cardinality(NodeIds(graph)) > 1 /\ DOMAIN graph.edges # {}

\* C2: a build_graph(path) that directly follows a build_graph(path), both
\* reaching their end and nobody else touching the tree in between, yields
\* the node ids and the edges the first build yielded.
C2_RebuildIdentical ==
    (/\ last.op = "build_graph" /\ last.ok
     /\ pre.call.op = "build_graph" /\ pre.call.ok /\ pre.call.arg = last.arg)
    => /\ NodeIds(graph) = NodeIds(pre.graph)
       /\ EdgeTriples(graph) = EdgeTriples(pre.graph)

(***************************************************************************)
(* The claims on extraction.                                               *)
(***************************************************************************)
\* the two-file source of the scenario: a.js defines foo, which calls bar,
\* and b.js defines bar
FooBarSource ==
    <<File(<<"a.js">>, JsFooCallsBar, "javascript"), File(<<"b.js">>, JsBar, "javascript")>>

\* C3: for the source whose a.js defines foo calling bar and whose b.js
\* defines bar, analyze_code_source yields exactly one dependency with
\* source foo and target bar, and it names a.js as source_file and b.js as
\* target_file.
C3_OneDependency ==
    (analysis_results.op = "analyze_code_source" /\ source_data = FooBarSource)
    => LET FooToBar(dep) == dep.source = "foo" /\ dep.target = "bar"
           found == SelectSeq(analysis_results.ret.dependencies, FooToBar)
       IN  /\ Len(found) = 1
           /\ found[1].source_file = <<"a.js">>
           /\ found[1].target_file = <<"b.js">>

\* C4: after the build of a repository whose a.js defines foo calling bar
\* and whose lib/b.js defines bar, find_dependencies('bar') returns an
\* incoming list with an entry for foo.
C4_IncomingOfBar ==
    (/\ last.op = "find_dependencies" /\ last.arg = <<"bar">>
     /\ pre.call.op = "build_graph" /\ pre.call.ok /\ pre.call.arg = <<"r">>
     /\ DOMAIN SourceTree \subseteq DOMAIN fs)
    => /\ "incoming" \in DOMAIN last.ret
       /\ \E i \in DOMAIN last.ret.incoming : last.ret.incoming[i].entity = <<"foo">>

\* the files that define class Widget with the methods draw and resize and
\* no superclass
WidgetFiles == {<<"w.js">>, <<"w.py">>, <<"W.java">>, <<"w.cpp">>, <<"w.rb">>}

\* C5: a file that defines class Widget with the methods draw and resize
\* and no superclass is extracted as exactly one class entity, named
\* Widget, with methods [draw, resize] and no superclasses.
C5_WidgetClass ==
    (/\ file_analysis.op = "analyze_file" /\ file_analysis.file \in WidgetFiles
     /\ file_analysis.language # None)
    => /\ Truthy(file_analysis.ret)
       /\ file_analysis.ret.classes =
             <<[name |-> "Widget", superclasses |-> <<>>, methods |-> <<"draw", "resize">>]>>

\* the functions and classes extracted from the file at path below repo_path
Entities(path, repo_path) ==
    LET relative_path == RelativeTo(path, repo_path)
        analysis == analyze_file(relative_path, fs[path].content, None)
    IN  IF Truthy(analysis) THEN Range(analysis.functions) \cup Range(analysis.classes)
        ELSE {}

\* C6: after a build_graph that reached its end, every function or class
\* extracted from a source file of the repository is a node of the graph,
\* and a contains or defines edge leads from its file's node to it.
C6_EntitiesInGraph ==
    (last.op = "build_graph" /\ last.ok)
    => \A path \in {p \in RGlobFiles(fs, last.arg) : fs[p].kind = "source" /\ ~HasDotGit(p)} :
          \A entity \in Entities(path, last.arg) :
             LET file_node == Str(RelativeTo(path, last.arg))
                 edge == <<file_node, <<entity.name>>>>
             IN  /\ HasNode(graph, <<entity.name>>)
                 /\ edge \in DOMAIN graph.edges
                 /\ graph.edges[edge].relationship \in {"contains", "defines"}

(***************************************************************************)
(* The claims on find_path.                                                *)
(***************************************************************************)
\* the nodes a directed path leads to from a node of S, those of S included
RECURSIVE Reach(_, _)
Reach(G, S) ==
    LET T == S \cup {e[2] : e \in {d \in DOMAIN G.edges : d[1] \in S}}
    IN  IF T = S THEN S ELSE Reach(G, T)

\* C7: find_path(a, a) for a node a of the graph returns a path of exactly
\* one element, whose node is a.
C7_PathToSelf ==
    (last.op = "find_path" /\ last.arg[1] = last.arg[2] /\ HasNode(graph, last.arg[1]))
    => Len(last.ret) = 1 /\ last.ret[1].node = last.arg[1]

\* find_path(a, a) was called on a node of a graph that has edges
C7_Witness ==
    /\ last.op = "find_path" /\ last.arg[1] = last.arg[2] /\ HasNode(graph, last.arg[1])
    /\ \E e \in DOMAIN graph.edges : e[1] = last.arg[1]
    /\ Len(last.ret) = 1

\* C8: find_path(source, target) returns the empty list when source or
\* target is no node or no directed path leads from source to target; a
\* list that is not empty starts at source, ends at target, and each of its
\* consecutive pairs is a directed edge of the graph.
C8_PathOrEmpty ==
    last.op = "find_path" =>
        LET source == last.arg[1]
            target == last.arg[2]
            path == last.ret
        IN  /\ (\/ ~HasNode(graph, source) \/ ~HasNode(graph, target)
                \/ target \notin Reach(graph, {source})) => path = <<>>
            /\ path # <<>> =>
                  /\ path[1].node = source /\ path[Len(path)].node = target
                  /\ \A i \in 1..(Len(path) - 1) :
                        <<path[i].node, path[i + 1].node>> \in DOMAIN graph.edges

\* find_path was called on two nodes of the graph that an edge joins the
\* other way round only, and returned the empty list
C8_Witness ==
    /\ last.op = "find_path" /\ last.ret = <<>>
    /\ HasNode(graph, last.arg[1]) /\ HasNode(graph, last.arg[2])
    /\ <<last.arg[2], last.arg[1]>> \in DOMAIN graph.edges

(***************************************************************************)
(* The claims on the totality of extraction.                               *)
(***************************************************************************)
\* the language whose parser the recorded call ran
ParserOf(call) ==
    IF call.op = "analyze_file" /\ call.language = None
    THEN detect_language(call.file, call.content) ELSE call.language

\* the recorded call ran the Python parser on a text that is no Python
PythonSyntaxError(call) ==
    /\ call.op \in {"analyze_file", "parse_and_analyze"}
    /\ ~IsNone(call.content) /\ call.content.ast.kind = "SyntaxError"
    /\ ParserOf(call) = "python"

\* C9: parse_and_analyze and analyze_file never raise, whatever the content
\* and the language; on Python source with a syntax error the result has
\* empty function and class lists and an error field.
C9_ExtractionTotal ==
    /\ file_analysis.op \in {"analyze_file", "parse_and_analyze"} => ~Raised(file_analysis.ret)
    /\ PythonSyntaxError(file_analysis) =>
          /\ Truthy(file_analysis.ret)
          /\ file_analysis.ret.functions = <<>> /\ file_analysis.ret.classes = <<>>
          /\ "error" \in DOMAIN file_analysis.ret

\* the Python parser was run on source with a syntax error
C9_Witness ==
    /\ PythonSyntaxError(file_analysis) /\ file_analysis.op = "parse_and_analyze"
    /\ file_analysis.file = <<"s.py">>
    /\ "error" \in DOMAIN file_analysis.ret

\* C10: for a file classified into a known language, the result of the
\* extraction holds a function or a class, or it carries an error field.
C10_EntityOrError ==
    (/\ file_analysis.op = "analyze_file" /\ ~IsNone(file_analysis.content)
     /\ file_analysis.language \notin {None, "unknown"})
    => /\ Truthy(file_analysis.ret)
       /\ \/ file_analysis.ret.functions # <<>>
          \/ file_analysis.ret.classes # <<>>
          \/ "error" \in DOMAIN file_analysis.ret

(***************************************************************************)
(* Brace-delimited bodies.                                                 *)
(***************************************************************************)
\* the closing brace that balances the block whose content starts at token i
RECURSIVE ClosingBrace(_, _, _)
ClosingBrace(c, i, depth) ==
    IF i > Len(c) THEN Len(c)
    ELSE IF c[i] = "}" THEN (IF depth = 0 THEN i ELSE ClosingBrace(c, i + 1, depth - 1))
    ELSE IF c[i] = "{" THEN ClosingBrace(c, i + 1, depth + 1)
    ELSE ClosingBrace(c, i + 1, depth)

\* the body of the block opened at token open, through its own closing brace
OwnBody(c, open) == SubSeq(c, open + 1, ClosingBrace(c, open + 1, 0))

\* a text that is one JavaScript function declaration
OneFunction(c) == Len(c) > 0 /\ c[1] = "function" /\ Count(c, "function") = 1

\* a parser call on a text that is one JavaScript function declaration
ParsedOneFunction ==
    /\ file_analysis.op = "parse_and_analyze"
    /\ file_analysis.language = "javascript"
    /\ ~IsNone(file_analysis.content)
    /\ OneFunction(file_analysis.content.text)

\* the function's body has a nested braced block
HasNestedBlock(c) == Count(OwnBody(c, FirstAt(c, 1, "{")), "{") > 0

\* C11: when the body of a function of a brace-delimited language holds a
\* nested braced block, the function's entity is computed from the body up
\* to the function's own closing brace: the constructs that follow the
\* nested block count in its complexity.
C11_BodyThroughOwnBrace ==
    (ParsedOneFunction /\ HasNestedBlock(file_analysis.content.text)) =>
        /\ Len(file_analysis.ret.functions) = 1
        /\ file_analysis.ret.functions[1].complexity =
               JsComplexity(OwnBody(file_analysis.content.text,
                                    FirstAt(file_analysis.content.text, 1, "{")))

\* the function of the text c with one more construct: an if block added
\* as the first statement of its body
WithIfBlock(c) ==
    SubSeq(c, 1, FirstAt(c, 1, "{")) \o <<"if", "(", "x", ")", "{", "}">>
    \o SubSeq(c, FirstAt(c, 1, "{") + 1, Len(c))

\* C12: the complexity of every emitted function is at least 1, and a
\* function to which one more branching construct is added is reported with
\* a complexity that is not smaller than before.
C12_ComplexityMonotone ==
    (file_analysis.op = "parse_and_analyze" /\ "error" \notin DOMAIN file_analysis.ret) =>
        /\ \A i \in DOMAIN file_analysis.ret.functions :
              file_analysis.ret.functions[i].complexity >= 1
        /\ (ParsedOneFunction /\ Len(file_analysis.ret.functions) = 1) =>
              \A g \in Range(JavaScriptParse(Text(WithIfBlock(file_analysis.content.text)),
                                             file_analysis.file).functions) :
                  g.complexity >= file_analysis.ret.functions[1].complexity

\* a file the loop of analyze_code_source does not skip
Analysed(file_data) ==
    /\ file_data.language # "unknown"
    /\ SizeOf(file_data.content) <= config.max_analysis_size

\* the counts and lists of a result of analyze_code_source
Counts(results) ==
    [files_analyzed |-> results.files_analyzed,
     language_breakdown |-> results.language_breakdown,
     functions |-> results.functions, classes |-> results.classes]

\* C13: a file whose language is unknown or whose content is larger than
\* max_analysis_size contributes to none of the counts: files_analyzed,
\* language_breakdown and the function and class lists are those of the
\* same file list without the skipped files.
C13_SkippedFilesNotCounted ==
    analysis_results.op = "analyze_code_source" =>
        Counts(analysis_results.ret)
            = Counts(analyze_code_source(SelectSeq(source_data, Analysed)))

(***************************************************************************)
(* The linking step on its own: _build_cross_file_relationships applied to *)
(* aggregated entities.  The inputs are the entity lists the file loop     *)
(* aggregates from the corpus, and lists of at most MaxEntities functions  *)
(* whose calls hold names, with at most one class.                         *)
(***************************************************************************)
MaxEntities == 2

LinkFunctions ==
    {[name |-> name, calls |-> called, complexity |-> 1,
      file |-> file, language |-> "javascript"] :
        name \in {"foo", "bar"}, called \in {<<>>, <<"bar">>, <<"Widget", "baz">>, <<"foo", "foo">>},
        file \in {<<"a.js">>, <<"b.js">>}}

LinkClasses ==
    {[name |-> name, superclasses |-> <<>>, methods |-> <<>>,
      file |-> <<"w.js">>, language |-> "javascript"] : name \in {"Widget", "bar"}}

\* the lists of at most n elements of S
RECURSIVE EntityLists(_, _)
EntityLists(S, n) ==
    IF n = 0 THEN {<<>>}
    ELSE EntityLists(S, n - 1) \cup
         {Append(l, e) : l \in {k \in EntityLists(S, n - 1) : Len(k) = n - 1}, e \in S}

LinkInputs ==
    {AnalyzeFiles(files, EmptyResults) : files \in FileLists(MaxFiles)} \cup
    {[EmptyResults EXCEPT !.functions = functions, !.classes = classes] :
        functions \in EntityLists(LinkFunctions, MaxEntities),
        classes \in EntityLists(LinkClasses, 1)}

\* analyzer._build_cross_file_relationships(analysis_results)
BuildCrossFileRelationships ==
    /\ analysis_results.op = "aggregated"
    /\ analysis_results' = [op |-> "build_cross_file_relationships",
                            arg |-> analysis_results.ret,
                            ret |-> build_cross_file_relationships(analysis_results.ret)]
    /\ UNCHANGED <<source_data, file_analysis>>
    /\ GraphIdle

\* analyzer._generate_insights(analysis_results, source_data), after the
\* linking step
GenerateInsights ==
    /\ analysis_results.op = "build_cross_file_relationships"
    /\ analysis_results' = [op |-> "generate_insights",
                            arg |-> analysis_results.ret,
                            ret |-> generate_insights(analysis_results.ret)]
    /\ UNCHANGED <<source_data, file_analysis>>
    /\ GraphIdle

InitLink ==
    /\ fs = SourceTree
    /\ graph = DiGraph
    /\ last = NoCall
    /\ calls = 0
    /\ pre = [graph |-> DiGraph, call |-> Summary(NoCall)]
    /\ source_data = <<>>
    /\ analysis_results \in {[op |-> "aggregated", ret |-> results] : results \in LinkInputs}
    /\ file_analysis = NotCalled

NextLink == BuildCrossFileRelationships \/ GenerateInsights

SpecLink == InitLink /\ [][NextLink]_vars

\* the <<source, target>> pairs of the dependency records
DependencyPairs(results) == {<<d.source, d.target>> : d \in Range(results.dependencies)}

\* the <<function, called name>> pairs of the functions' calls
CallPairs(results) ==
    UNION {{<<f.name, called>> : called \in Range(f.calls)} : f \in Range(results.functions)}

\* the names of the aggregated entities
EntityNames(results) == Range(Names(results.functions)) \cup Range(Names(results.classes))

\* C14: after the linking step the symbol table's keys are the names of the
\* aggregated entities, and the dependency list holds a record with source
\* f and target c, for a function f and a name c of f's calls, exactly when
\* c is a key of the symbol table.
C14_DependencyIffSymbol ==
    analysis_results.op = "build_cross_file_relationships" =>
        /\ DOMAIN analysis_results.ret.symbols = EntityNames(analysis_results.arg)
        /\ DependencyPairs(analysis_results.ret)
              = {pair \in CallPairs(analysis_results.arg) :
                    pair[2] \in DOMAIN analysis_results.ret.symbols}

\* the linking step has emitted a record for one call and none for another
C14_Witness ==
    /\ analysis_results.op = "build_cross_file_relationships"
    /\ DependencyPairs(analysis_results.ret) # {}
    /\ DependencyPairs(analysis_results.ret) # CallPairs(analysis_results.arg)

\* C15: a build_graph during which writing the persisted graph file fails
\* (the save reports an I/O error) returns False.
C15_FailedSaveFailsBuild ==
    (last.op = "build_graph" /\ ~last.saved) => last.ret = FALSE

\* C16: a build_graph that returns False commits no partial graph: the
\* graph in memory after the call is, node for node and edge for edge, the
\* graph before the call.
C16_FailedBuildKeepsGraph ==
    (last.op = "build_graph" /\ last.ret = FALSE) => graph = pre.graph

(***************************************************************************)
(* The classification on its own: the two _detect_language methods applied *)
(* to a path and a content, or no content.                                 *)
(***************************************************************************)
\* interface Shape { }
TsShape == Text(<<"interface", "Shape", "{", "}">>)
\* #include < stdio.h >
CInclude == Text(<<"#include", "<", "stdio.h", ">">>)
\* int main ( ) { std::cout ; }
CppMain == Text(<<"int", "main", "(", ")", "{", "std::cout", ";", "}">>)
\* namespace App { }
CsApp == Text(<<"namespace", "App", "{", "}">>)
\* <html> </html>
Html == Text(<<"<html>", "</html>">>)
\* a { color: red }
Css == Text(<<"a", "{", "color", ":", "red", "}">>)
\* { }
JsonEmpty == Text(<<"{", "}">>)
\* x: 1
YamlKey == Text(<<"x", ":", "1">>)
\* the empty text
Empty == Text(<<>>)

\* the contents that are classified: those of the corpus, a text for each
\* later test of the scanner, the empty text and no content
ClassifyContents ==
    {f.content : f \in Corpus}
    \cup {TsShape, CInclude, CppMain, CsApp, Html, Css, JsonEmpty, YamlKey, Empty, NoContent}

\* the paths that are classified: with an extension both tables hold, one
\* that the scanner's table alone holds, one that neither holds, and none
ClassifyPaths == {<<"a.js">>, <<"w.py">>, <<"m.h">>, <<"r_graph.json">>, <<"n.txt">>, <<"script">>}

\* analyzer._detect_language(file_path, content)
DetectLanguage(file_path, content) ==
    /\ file_analysis' = [op |-> "detect_language", file |-> file_path, content |-> content,
                         ret |-> detect_language(file_path, content)]
    /\ UNCHANGED <<source_data, analysis_results>>
    /\ GraphIdle

\* scanner._detect_language(file_path, content)
ScannerDetectLanguage(file_path, content) ==
    /\ file_analysis' = [op |-> "scanner_detect_language", file |-> file_path,
                         content |-> content,
                         ret |-> scanner_detect_language(file_path, content)]
    /\ UNCHANGED <<source_data, analysis_results>>
    /\ GraphIdle

InitClassify ==
    /\ fs = SourceTree
    /\ graph = DiGraph
    /\ last = NoCall
    /\ calls = 0
    /\ pre = [graph |-> DiGraph, call |-> Summary(NoCall)]
    /\ source_data = <<>>
    /\ analysis_results = NotCalled
    /\ file_analysis = NotCalled

NextClassify ==
    \/ \E file_path \in ClassifyPaths, content \in ClassifyContents :
          DetectLanguage(file_path, content)
    \/ \E file_path \in ClassifyPaths, content \in ClassifyContents :
          ScannerDetectLanguage(file_path, content)

SpecClassify == InitClassify /\ [][NextClassify]_vars

\* the extension table of the detector a call was made on
Registered(op) == IF op = "detect_language" THEN language_map ELSE language_extensions

\* the content tests of a detector in the order of its source, each with
\* the language it stands for and whether the text c passes it
Heuristics(op, c) ==
    << [language |-> "python", matches |-> SearchDef(c) \/ SearchImport(c)],
       [language |-> "javascript",
        matches |-> SearchFunction(c) \/ SearchWord(c, {"const", "let", "var"})] >>
    \o (IF op = "detect_language" THEN <<>>
        ELSE << [language |-> "typescript",
                 matches |-> \/ Search(<<Tok({"interface"}), Word(""), Tok({"{"})>>, c)
                             \/ Search(<<Tok({":"}), Word(""), Tok({",", ")"})>>, c)],
                [language |-> "java",
                 matches |-> Search(<<Tok({"public", "private"}), Tok({"class"})>>, c)],
                [language |-> IF SearchWord(c, {"std::cout"}) THEN "cpp" ELSE "c",
                 matches |-> \/ Search(<<Tok({"#include"}), Tok({"<"})>>, c)
                             \/ Search(<<Tok({"int"}), Tok({"main"}), Tok({"("})>>, c)],
                [language |-> "csharp",
                 matches |-> Search(<<Tok({"namespace"}), Word("")>>, c)],
                [language |-> "html", matches |-> SearchWord(c, {"<html>"})],
                [language |-> "css", matches |-> SearchProperty(c, "color")],
                [language |-> "json", matches |-> JsonObject(c)],
                [language |-> "yaml", matches |-> SearchKey(c)] >>)

\* the language of the first test of h that passes, unknown when none does
FirstMatch(h) ==
    IF \E i \in DOMAIN h : h[i].matches
    THEN h[CHOOSE i \in DOMAIN h : h[i].matches /\ \A k \in 1..(i - 1) : ~h[k].matches].language
    ELSE "unknown"

\* the language tags of the two tables and of the content tests
LanguageTags ==
    Range(language_map) \cup Range(language_extensions)
    \cup {"python", "javascript", "typescript", "java", "c", "cpp", "csharp", "html", "css",
          "json", "yaml", "unknown"}

\* C17: classifying a path with an optional content never raises; it
\* returns the language registered for the path's extension whenever there
\* is one, whatever the content; otherwise the language of the first
\* content test, in the fixed order, that the content passes; otherwise
\* unknown.
C17_Classification ==
    file_analysis.op \in {"detect_language", "scanner_detect_language"} =>
        /\ file_analysis.ret \in LanguageTags
        /\ file_analysis.ret =
              IF Suffix(file_analysis.file) \in DOMAIN Registered(file_analysis.op)
              THEN Registered(file_analysis.op)[Suffix(file_analysis.file)]
              ELSE IF IsNone(file_analysis.content) THEN "unknown"
              ELSE FirstMatch(Heuristics(file_analysis.op, file_analysis.content.text))

\* a path with no registered extension was classified by a content test
\* that is not the first one
C17_Witness ==
    /\ file_analysis.op = "scanner_detect_language"
    /\ Suffix(file_analysis.file) \notin DOMAIN language_extensions
    /\ ~IsNone(file_analysis.content)
    /\ file_analysis.ret = "java"

\* the entry of find_dependencies for the edge e, seen from its end at
\* position `here`: the node at the other end, its type, the relationship
EdgeEntry(G, e, here) ==
    [entity |-> e[3 - here], type |-> Get(G.nodes[e[3 - here]], "type"),
     relationship |-> Get(G.edges[e], "relationship")]

\* the list holds exactly one entry per edge of G with the entity at
\* position `here`
OnePerEdge(list, G, entity, here) ==
    /\ Len(list) = Cardinality({e \in DOMAIN G.edges : e[here] = entity})
    /\ \A e \in {d \in DOMAIN G.edges : d[here] = entity} :
          Cardinality({i \in DOMAIN list : list[i] = EdgeEntry(G, e, here)}) = 1

\* C18: for an entity that is a node, find_dependencies returns an incoming
\* list with exactly one entry per edge ending at the entity and an
\* outgoing list with exactly one entry per edge starting at it, each entry
\* giving the node at the other end, its type and the edge's relationship;
\* for an entity that is no node it returns an empty result.
C18_DependenciesAreEdges ==
    last.op = "find_dependencies" =>
        IF HasNode(graph, last.arg)
        THEN /\ DOMAIN last.ret = {"incoming", "outgoing"}
             /\ OnePerEdge(last.ret.incoming, graph, last.arg, 2)
             /\ OnePerEdge(last.ret.outgoing, graph, last.arg, 1)
        ELSE last.ret = <<>>

\* find_dependencies was asked about a node with edges in both directions
C18_Witness ==
    /\ last.op = "find_dependencies"
    /\ HasNode(graph, last.arg)
    /\ Len(last.ret.incoming) > 0
    /\ Len(last.ret.outgoing) > 0

\* C19: no extractor emits, for one file, a function entity for a method
\* that it also lists in the methods of a class entity of that file.
C19_NoDoubleCounting ==
    (file_analysis.op = "parse_and_analyze" /\ "error" \notin DOMAIN file_analysis.ret) =>
        \A f \in Range(file_analysis.ret.functions) :
            \A class \in Range(file_analysis.ret.classes) :
                f.name \notin Range(class.methods)

\* the extraction of a file completed without error: analyze_file returned
\* an analysis, and the analysis has no error field
ExtractionCompleted(file_data) ==
    /\ Truthy(analyze_file(file_data.path, file_data.content, file_data.language))
    /\ "error" \notin DOMAIN analyze_file(file_data.path, file_data.content,
                                          file_data.language)

\* C20: files_analyzed is the number of files whose extraction completed
\* without error: a skipped file, a file whose extraction raised and a file
\* whose extraction returned a populated error field are not counted.
C20_FilesAnalyzedCount ==
    analysis_results.op = "analyze_code_source" =>
        analysis_results.ret.files_analyzed =
            Cardinality({i \in DOMAIN source_data :
                            Analysed(source_data[i]) /\ ExtractionCompleted(source_data[i])})

(***************************************************************************)
(* The claims on the structure of a built graph.                           *)
(***************************************************************************)
\* a build_graph that reached its end is the last call
Built == last.op = "build_graph" /\ last.ok

\* the regular files below the root of the last build, the graph file that
\* the build itself writes left aside
FilesUnderRoot == RGlobFiles(fs, last.arg) \ {graph_path(Name(last.arg))}

\* the graph has a file node for the file at path and a contains edge from
\* the repository node to it
HasFileNode(G, repo_path, path) ==
    /\ HasNode(G, Str(RelativeTo(path, repo_path)))
    /\ Get(G.nodes[Str(RelativeTo(path, repo_path))], "type") = "file"
    /\ <<Str(repo_path), Str(RelativeTo(path, repo_path)), "contains">> \in EdgeTriples(G)

MaxEdges == 3

EdgeNodes == {<<"r">>, <<"lib">>, <<"a.js">>}

Relationships == {"contains", "defines", "calls"}

\* self.graph.add_edge(u, v, relationship=relationship)
AddEdge(u, v, relationship) ==
    /\ calls < MaxEdges
    /\ calls' = calls + 1
    /\ graph' = add_edge(graph, u, v, [relationship |-> relationship])
    /\ last' = [op |-> "add_edge", arg |-> <<u, v, relationship>>, ok |-> TRUE, ret |-> TRUE]
    /\ pre' = [graph |-> graph, call |-> Summary(last)]
    /\ UNCHANGED fs
    /\ AnalyzerIdle

SpecEdges == Init /\ [][\E u \in EdgeNodes, v \in EdgeNodes, relationship \in Relationships :
                           AddEdge(u, v, relationship)]_vars

\* C22: the edge set is a set of (source, target, relationship) triples:
\* adding an edge leaves the set as it was when the triple is in it, and
\* adds the triple otherwise, the edges already between the two nodes with
\* another relationship being kept.
C22_EdgeSetOfTriples ==
    last.op = "add_edge" => EdgeTriples(graph) = EdgeTriples(pre.graph) \cup {last.arg}

NodeTypes == {"repository", "directory", "file", "class", "function"}

\* C23: after a successful build_graph every node of the graph carries a
\* type attribute, and its value is one of repository, directory, file,
\* class and function.
C23_EveryNodeTyped ==
    Built => \A n \in NodeIds(graph) : Get(graph.nodes[n], "type") \in NodeTypes

\* the directories that are proper ancestors of the relative path n
Ancestors(n) == {SubSeq(n, 1, k) : k \in 1..(Len(n) - 1)}

FileNodes(G) == {n \in NodeIds(G) : Get(G.nodes[n], "type") = "file"}

\* C24: after build_graph, for every file node and every directory that is
\* a proper ancestor of the file below the repository root, the graph holds
\* the node of type directory of that directory, a contains edge from the
\* directory to the file and a contains edge from the repository root to
\* the directory.
C24_DirectoryHierarchy ==
    Built => \A n \in FileNodes(graph) : \A d \in Ancestors(n) :
                 /\ HasNode(graph, d)
                 /\ Get(graph.nodes[d], "type") = "directory"
                 /\ <<d, n, "contains">> \in EdgeTriples(graph)
                 /\ <<Str(last.arg), d, "contains">> \in EdgeTriples(graph)

\* the aggregated entities in the order the symbol table is written from
Written(results) == results.functions \o results.classes

\* entity i of w is the last one of its name
IsLastWritten(w, i) == \A k \in (i + 1)..Len(w) : w[k].name # w[i].name

Linked == analysis_results.op = "build_cross_file_relationships"

\* C25: the symbol table maps a name to the entity of that name written
\* last, the functions being written in aggregation order before the
\* classes, and every dependency on the name carries the target_file of
\* that entity.
C25_LastWriterWins ==
    Linked =>
        \A i \in DOMAIN Written(analysis_results.arg) :
            IsLastWritten(Written(analysis_results.arg), i) =>
                /\ analysis_results.ret.symbols[Written(analysis_results.arg)[i].name]
                      = [type |-> IF i <= Len(analysis_results.arg.functions)
                                  THEN "function" ELSE "class",
                         data |-> Written(analysis_results.arg)[i]]
                /\ \A d \in Range(analysis_results.ret.dependencies) :
                      d.target = Written(analysis_results.arg)[i].name
                          => d.target_file = Written(analysis_results.arg)[i].file

\* two functions of one name in different files, or a function and a class
\* of one name, with a dependency on that name
C25_Witness ==
    /\ Linked
    /\ \E i, k \in DOMAIN Written(analysis_results.arg) :
          /\ i < k
          /\ Written(analysis_results.arg)[i].name = Written(analysis_results.arg)[k].name
          /\ Written(analysis_results.arg)[i].file # Written(analysis_results.arg)[k].file
          /\ \E d \in Range(analysis_results.ret.dependencies) :
                d.target = Written(analysis_results.arg)[k].name

SourceAnalysed == analysis_results.op = "analyze_code_source"

\* the files of source_data whose language is `language`
FilesOf(language) == {i \in DOMAIN source_data : source_data[i].language = language}

KnownLanguages == {source_data[i].language : i \in DOMAIN source_data} \ {"unknown"}

\* C26: when a file of the source has a language other than unknown, the
\* insights name as primary language a known language that no other known
\* language has more files than, with its number of files; the number of
\* unknown files does not enter.
C26_PrimaryLanguageKnown ==
    (SourceAnalysed /\ KnownLanguages # {}) =>
        \E i \in DOMAIN analysis_results.ret.insights :
            /\ analysis_results.ret.insights[i].insight = "primary_language"
            /\ analysis_results.ret.insights[i].language \in KnownLanguages
            /\ analysis_results.ret.insights[i].files
                  = Cardinality(FilesOf(analysis_results.ret.insights[i].language))
            /\ \A language \in KnownLanguages :
                  Cardinality(FilesOf(language))
                      <= Cardinality(FilesOf(analysis_results.ret.insights[i].language))

InsightsGenerated == analysis_results.op = "generate_insights"

\* the file pairs of the cross-file dependency records
CrossPairs(results) ==
    {<<d.source_file, d.target_file>> :
        d \in {e \in Range(results.dependencies) : e.source_file # e.target_file}}

\* the number of distinct dependency records between the files of `pair`
DistinctCount(results, pair) ==
    Cardinality({d \in Range(results.dependencies) :
                    d.source_file = pair[1] /\ d.target_file = pair[2]})

\* the place of the first dependency record between the files of `pair`
FirstSeen(results, pair) ==
    CHOOSE i \in DOMAIN results.dependencies :
        /\ <<results.dependencies[i].source_file, results.dependencies[i].target_file>> = pair
        /\ \A k \in 1..(i - 1) :
              <<results.dependencies[k].source_file, results.dependencies[k].target_file>> # pair

\* `pair` has the most distinct dependencies, and comes first among the
\* pairs that have as many
IsStrongest(results, pair) ==
    /\ pair \in CrossPairs(results)
    /\ \A other \in CrossPairs(results) :
          /\ DistinctCount(results, other) <= DistinctCount(results, pair)
          /\ (other # pair /\ DistinctCount(results, other) = DistinctCount(results, pair))
                => FirstSeen(results, pair) < FirstSeen(results, other)

CouplingInsights(results) ==
    {i \in DOMAIN results.insights : results.insights[i].insight = "strongest_coupling"}

Rebuilt == Built /\ pre.call.op = "build_graph"

\* the relative paths of the files a build of repo_path over F makes nodes of
BuildFiles(F, repo_path) ==
    {RelativeTo(p, repo_path) : p \in {q \in RGlobFiles(F, repo_path) : ~HasDotGit(q)}}

\* the node ids a build of repo_path over F can produce
ProducedNodes(F, repo_path) ==
    {Str(repo_path), <<"ExampleClass">>, <<"method1">>, <<"example", "file.py">>}
        \cup BuildFiles(F, repo_path)
        \cup UNION {Ancestors(n) : n \in BuildFiles(F, repo_path)}

\* the edges a build of repo_path over F can produce
ProducedEdges(F, repo_path) ==
    {<<Str(repo_path), n, "contains">> :
        n \in ProducedNodes(F, repo_path) \ {<<"ExampleClass">>, <<"method1">>,
                                              <<"example", "file.py">>}}
        \cup UNION {{<<d, n, "contains">> : d \in Ancestors(n)} : n \in BuildFiles(F, repo_path)}
        \cup {<<<<"example", "file.py">>, <<"ExampleClass">>, "contains">>,
              <<<<"ExampleClass">>, <<"method1">>, "defines">>}

\* C28: a rebuild replaces the whole graph: after a build_graph and then a
\* successful build_graph(B) the graph holds only nodes and edges that the
\* build of B produces, and the repository node is that of B.
C28_RebuildReplaces ==
    Rebuilt =>
        /\ NodeIds(graph) \subseteq ProducedNodes(fs, last.arg)
        /\ EdgeTriples(graph) \subseteq ProducedEdges(fs, last.arg)
        /\ \A n \in NodeIds(graph) :
              Get(graph.nodes[n], "type") = "repository" <=> n = Str(last.arg)

\* a build after the build of another path, whose graph held nodes and
\* edges that the new graph does not hold
C28_Witness ==
    /\ Rebuilt
    /\ pre.call.ok
    /\ pre.call.arg # last.arg
    /\ NodeIds(pre.graph) \ NodeIds(graph) # {}
    /\ EdgeTriples(pre.graph) \ EdgeTriples(graph) # {}

\* a successful build_graph(B) directly after a successful build_graph(A)
\* of another path; pre.graph is the graph built from A
BuiltAfterOther == Rebuilt /\ pre.call.ok /\ pre.call.arg # last.arg

Persisted(repo_name) ==
    /\ graph_path(repo_name) \in DOMAIN fs
    /\ fs[graph_path(repo_name)].kind = "json"

\* the graph load_graph(repo_name) sets when it reads the persisted file
Restored(repo_name) == node_link_graph(JsonLoad(fs[graph_path(repo_name)]))

\* C29: each repository has its own persisted graph: after build_graph(A)
\* and then build_graph(B), for different paths A and B, the file that
\* load_graph reads for A's repository name is there, and load_graph
\* restores from it the nodes, attributes and edges of the graph built
\* from A.
C29_OwnPersistedGraph ==
    BuiltAfterOther =>
        /\ Persisted(Name(pre.call.arg))
        /\ NodeIds(Restored(Name(pre.call.arg))) = NodeIds(pre.graph)
        /\ \A n \in NodeIds(pre.graph) :
              Restored(Name(pre.call.arg)).nodes[n] = pre.graph.nodes[n]
        /\ EdgeTriples(Restored(Name(pre.call.arg))) = EdgeTriples(pre.graph)

LoadFailed == last.op = "load_graph" /\ ~last.ret

\* C30: when load_graph(name) returns False, no file being persisted for
\* name or the file not being readable or decodable, the graph is the graph
\* held before the call, node for node and edge for edge.
C30_FailedLoadKeepsGraph ==
    LoadFailed =>
        /\ graph.nodes = pre.graph.nodes
        /\ graph.edges = pre.graph.edges

\* load_graph failed on a file that is there, while a built graph was held
C30_Witness ==
    /\ LoadFailed
    /\ graph_path(last.arg) \in DOMAIN fs
    /\ DOMAIN pre.graph.nodes # {}
    /\ DOMAIN pre.graph.edges # {}

====
